---- MODULE Spec2Model ----
\* litest: the suite walker (TestRunner.runSuite), the per-test executor
\* (TestRunner.runTestWithHooks), the timeout race (withTimeout) and the
\* test-scoped hook registry (test-hooks.js), modelled as one state machine,
\* together with the registration calls a module makes while it is loaded
\* (describe, it, the hooks, and their each / for forms).
EXTENDS Integers, Sequences, FiniteSets, TLC

VARIABLES
    load,               \* the evaluation of the module runSpecFile imports
    testContext,        \* describe.js testContext: suites, currentSuite, hasOnly
    suiteTab,           \* the suite objects, by identity (1..NumSuites)
    testTab,            \* the test objects, by identity (1..NumTests)
    fnTab,              \* what each callback of the module does when called
    globalTimeout,      \* expect.js globalTimeout
    testHooksRegistry,  \* test-hooks.js testHooksRegistry
    stack,              \* the chain of pending runSpecFile / runSuite calls
    tx,                 \* the pending runTestWithHooks call (NoTx when none)
    cur,                \* the unit of work of the attempt being awaited
    zombies,            \* units of work abandoned at their deadline, still running
    results,            \* the Result sequence of the module
    reporter,           \* TestReporter: results and stats.total
    bodyRuns,           \* history: how many times each test body was invoked
    attemptLog,         \* history: how each attempt of each test ended
    regCount,           \* history: calls of onTestFinished / onTestFailed made in the run
    regLog,             \* history: the registrations made since the walker's last step
    sideLog             \* history: the side-channel hooks executed since then

vars == <<load, testContext, suiteTab, testTab, fnTab, globalTimeout, testHooksRegistry,
          stack, tx, cur, zombies, results, reporter, bodyRuns, attemptLog,
          regCount, regLog, sideLog>>

-----------------------------------------------------------------------------
\* Bounds of the model.

\* beforeEach hooks and afterEach hooks registered per suite
EachHooks == 1
\* largest retry option given to a test
MaxRetry == 2
\* units of work that may be left running after their deadline in one run
MaxZombies == 1
\* side-channel callbacks registered in one run
MaxReg == 2

\* Program constants.
DEFAULT_TIMEOUT == 5000
HOOK_TIMEOUT == 10000
\* the timeout option used by the tests that set one
CustomTimeout == 1000

\* JavaScript undefined for a numeric option, and the NaN that arithmetic on
\* it gives.
Undefined == -1
NaN == -2

-----------------------------------------------------------------------------
\* Values thrown and error messages.  A message is a sequence of text
\* fragments; concatenation is \o.

FragTimedOut == "timed out"

RECURSIVE DigitsOf(_)
DigitsOf(n) ==
    IF n < 10 THEN <<n>> ELSE DigitsOf(n \div 10) \o <<n % 10>>

DigitChar(d) == CASE d = 0 -> "0" [] d = 1 -> "1" [] d = 2 -> "2" [] d = 3 -> "3"
                  [] d = 4 -> "4" [] d = 5 -> "5" [] d = 6 -> "6" [] d = 7 -> "7"
                  [] d = 8 -> "8" [] d = 9 -> "9"

\* `${timeout}`: the decimal digits of a number, one fragment per digit
NumberText(n) == [k \in 1..Len(DigitsOf(n)) |-> DigitChar(DigitsOf(n)[k])]

NoError == [kind |-> "null", message |-> <<>>]
MkError(m) == [kind |-> "Error", message |-> m]
\* a thrown value that is not an Error object: it has no message property
ThrownString == [kind |-> "string", message |-> <<>>]

HasMessage(e) == e.kind = "Error"

\* a thrown null: reading its message property throws a TypeError
ThrownNull == [kind |-> "thrownNull", message |-> <<>>]
IsNullish(e) == e.kind = "thrownNull"

\* error.message.includes('timed out')
IncludesTimedOut(m) == \E k \in DOMAIN m : m[k] = FragTimedOut

\* new Error(`Test timed out after ${timeout}ms`)
TimeoutError(timeout) ==
    MkError(<<"Test ", FragTimedOut, " after ">> \o NumberText(timeout) \o <<"ms">>)

ExpectedToFailError == MkError(<<"Test was expected to fail but passed">>)
BeforeEachFailed(e) == MkError(<<"beforeEach hook failed: ">> \o e.message)
AfterEachFailed(e) == MkError(<<"afterEach hook failed: ">> \o e.message)
BeforeAllFailed(e) == MkError(<<"beforeAll hook failed: ">> \o e.message)
SuiteHookFailed(e) == MkError(<<"Suite hook failed: ">> \o e.message)
\* new Error('onTestFinished can only be called during test execution')
UsageError(kind) == MkError(<<kind, " can only be called during test execution">>)
\* the TypeError of reading a property of undefined
TypeErrorUndefined == MkError(<<"Cannot read properties of undefined">>)
\* the TypeError of reading a property of null
TypeErrorNull == MkError(<<"Cannot read properties of null">>)

\* what a test body may throw: an ordinary Error, an Error whose own message
\* contains 'timed out', a value that is not an Error
BodyThrows == { MkError(<<"boom">>),
                MkError(<<"operation ", FragTimedOut>>),
                ThrownString }
\* what a lifecycle hook may throw
HookThrows == { MkError(<<"hook boom">>) }

\* A callback of the module under test (a test body or a lifecycle hook) is
\* given by what a call of it may do: return, throw one of some values, take
\* longer than the timeout it runs under, register side-channel hooks.
Callback(returns, throws, slow, registers) ==
    [returns |-> returns, throws |-> throws, slow |-> slow,
     registers |-> registers]

PassingBody == Callback(TRUE, {}, FALSE, FALSE)
StringThrowingBody == Callback(FALSE, {ThrownString}, FALSE, FALSE)
\* a body that may return, throw or outlast its timeout
TimingBody == Callback(TRUE, BodyThrows, TRUE, FALSE)
\* a body that registers side-channel hooks and then returns or throws
RegisteringBody == Callback(TRUE, BodyThrows, FALSE, TRUE)
\* a body that may outlast its timeout and registers side-channel hooks,
\* also after its deadline
LateBody == Callback(TRUE, {}, TRUE, TRUE)
AnyHook == Callback(TRUE, HookThrows, TRUE, FALSE)
QuickHook == Callback(TRUE, {}, FALSE, FALSE)
\* a suite hook that calls onTestFinished or onTestFailed and returns
RegisteringHook == Callback(TRUE, {}, FALSE, TRUE)
\* a hook that may return or throw null
NullThrowingHook == Callback(TRUE, {ThrownNull}, FALSE, FALSE)

\* what a call of callback c does when it is made for test t (Null: for a suite)
Called(c, t) == fnTab[<<c, t>>]

-----------------------------------------------------------------------------
\* The tree of one module.

\* suite 1 is a root suite, suite 2 is nested in it; the tests belong to
\* suite 1 or to suite 2
SuiteIds == {1, 2}
TestIds == {1, 2, 3}

Hook(kind, s, k) == <<kind, s, k>>
EmptyHooks == [beforeAll |-> <<>>, beforeEach |-> <<>>,
               afterAll |-> <<>>, afterEach |-> <<>>]

\* the suite object created by describe / describe.only / describe.skip
NewSuite(only, skip) ==
    [tests |-> <<>>, suites |-> <<>>, only |-> only, skip |-> skip,
     hooks |-> EmptyHooks]

describe == NewSuite(FALSE, FALSE)
describe_only == NewSuite(TRUE, FALSE)
describe_skip == NewSuite(FALSE, TRUE)

\* the test object created by it(name, options, fn); an absent option is
\* Undefined (retry), 0 (timeout) or FALSE (the flags)
it(options) ==
    [only |-> options.only, skip |-> options.skip, todo |-> options.todo,
     fails |-> options.fails, timeout |-> options.timeout,
     retry |-> IF options.retry = Undefined \/ options.retry = 0
               THEN 0 ELSE options.retry]

NoOptions == [only |-> FALSE, skip |-> FALSE, todo |-> FALSE, fails |-> FALSE,
              timeout |-> 0, retry |-> Undefined]

\* the test object created by it.only: it has no todo, fails, timeout and
\* retry properties
it_only ==
    [only |-> TRUE, skip |-> FALSE, todo |-> FALSE, fails |-> FALSE,
     timeout |-> 0, retry |-> Undefined]

it_skip == it([NoOptions EXCEPT !.skip = TRUE])
it_todo == it([NoOptions EXCEPT !.todo = TRUE])
it_fails == it([NoOptions EXCEPT !.fails = TRUE])

Null == 0

Range(f) == {f[x] : x \in DOMAIN f}

RECURSIVE Reverse(_)
Reverse(s) == IF s = <<>> THEN <<>> ELSE Append(Reverse(Tail(s)), Head(s))

\* the hooks a suite registered: one beforeAll, one afterAll, EachHooks
\* beforeEach and EachHooks afterEach, in registration order
RegisteredHooks(s) ==
    [beforeAll |-> <<Hook("beforeAll", s, 1)>>,
     beforeEach |-> [k \in 1..EachHooks |-> Hook("beforeEach", s, k)],
     afterAll |-> <<Hook("afterAll", s, 1)>>,
     afterEach |-> [k \in 1..EachHooks |-> Hook("afterEach", s, k)]]

\* the ways the modules under study register a suite and a test
SuiteForms == {describe, describe_only, describe_skip}
TestForms == {it(NoOptions), it_only, it([NoOptions EXCEPT !.only = TRUE]),
              it_skip, it_todo, it_fails,
              it([NoOptions EXCEPT !.retry = MaxRetry]),
              it([NoOptions EXCEPT !.fails = TRUE, !.retry = 1]),
              it([NoOptions EXCEPT !.timeout = CustomTimeout])}

-----------------------------------------------------------------------------
\* Results and the reporter.

MkResult(t, status, error) == [test |-> t, status |-> status, error |-> error]
\* the value of `result` when runTestWithHooks returns without assigning it
UndefinedResult == MkResult(Null, "undefined", NoError)

\* TestReporter.onTestEnd up to the statement that reads result.status
onTestEnd(rep, result) ==
    [results |-> Append(rep.results, result), total |-> rep.total + 1]

\* this.stats[status]: onTestEnd adds one to the counter named by the status
\* of each Result it is given, so the counter is the number of Results with
\* that status delivered so far
Stats(rep, status) ==
    Len(SelectSeq(rep.results, LAMBDA r : r.status = status))

\* the exit status of the process once the run is over: printSummary exits
\* with 1 when stats.failed > 0, otherwise runTests exits with 0
exitStatus(rep) == IF Stats(rep, "failed") > 0 THEN 1 ELSE 0

-----------------------------------------------------------------------------
\* TestRunner.runSuite

RECURSIVE hasOnlyInChildren(_)
hasOnlyInChildren(s) ==
    \/ \E k \in DOMAIN suiteTab[s].tests : testTab[suiteTab[s].tests[k]].only
    \/ \E k \in DOMAIN suiteTab[s].suites :
          \/ suiteTab[suiteTab[s].suites[k]].only
          \/ hasOnlyInChildren(suiteTab[s].suites[k])

hasOnlyModifier == testContext.hasOnly

shouldRunSuite(s) ==
    ~hasOnlyModifier \/ suiteTab[s].only \/ hasOnlyInChildren(s)

shouldRunTest(t) == ~hasOnlyModifier \/ testTab[t].only

Frame(s, pc, i, hooks) == [suite |-> s, pc |-> pc, i |-> i, hooks |-> hooks]

NoEachHooks == [beforeEach |-> <<>>, afterEach |-> <<>>]

currentHooks(parentHooks, s) ==
    [beforeEach |-> parentHooks.beforeEach \o suiteTab[s].hooks.beforeEach,
     afterEach |-> parentHooks.afterEach \o suiteTab[s].hooks.afterEach]

Top(st) == st[Len(st)]
Pop(st) == SubSeq(st, 1, Len(st) - 1)
SetTop(st, f) == Append(Pop(st), f)

\* the synchronous steps of the walker between two awaits: loop exits, tests
\* filtered out by only, returns to the caller
RECURSIVE Norm(_)
Norm(st) ==
    IF st = <<>> THEN st
    ELSE LET f == Top(st)
             S == suiteTab[f.suite]
         IN CASE f.pc = "suites" /\ f.i > Len(testContext.suites) -> Pop(st)
              [] f.pc = "suites" /\ f.i <= Len(testContext.suites) -> st
              [] f.pc = "exit" -> Norm(Pop(st))
              [] f.pc = "skipNested" /\ f.i > Len(S.suites) -> Norm(Pop(st))
              [] f.pc = "beforeAll" /\ f.i > Len(S.hooks.beforeAll) ->
                   Norm(SetTop(st, Frame(f.suite, "tests", 1,
                                         currentHooks(f.hooks, f.suite))))
              [] f.pc = "tests" /\ f.i > Len(S.tests) ->
                   Norm(SetTop(st, [f EXCEPT !.pc = "nested", !.i = 1]))
              [] f.pc = "tests" /\ f.i <= Len(S.tests)
                               /\ ~shouldRunTest(S.tests[f.i]) ->
                   Norm(SetTop(st, [f EXCEPT !.i = f.i + 1]))
              [] f.pc = "nested" /\ f.i > Len(S.suites) ->
                   Norm(SetTop(st, [f EXCEPT !.pc = "afterAll",
                                             !.i = Len(S.hooks.afterAll)]))
              [] f.pc = "afterAll" /\ f.i = 0 -> Norm(Pop(st))
              [] OTHER -> st

\* the Results pushed for the tests of a skipped suite
SkippedResults(s) ==
    [k \in DOMAIN suiteTab[s].tests |->
        MkResult(suiteTab[s].tests[k], "skipped", NoError)]

\* the tests of a suite the catch block of runSuite marks as failed
RECURSIVE SelectRun(_)
SelectRun(ts) ==
    IF ts = <<>> THEN <<>>
    ELSE (IF shouldRunTest(Head(ts)) THEN <<Head(ts)>> ELSE <<>>)
         \o SelectRun(Tail(ts))

SuiteFailedResults(s, error) ==
    [k \in DOMAIN SelectRun(suiteTab[s].tests) |->
        MkResult(SelectRun(suiteTab[s].tests)[k], "failed",
                 SuiteHookFailed(error))]

\* runSuite from its entry to its first await: the frame it leaves on the
\* stack (none when it returns at once)
EnterSuite(s, parentHooks) ==
    IF suiteTab[s].skip THEN <<Frame(s, "skipNested", 1, parentHooks)>>
    ELSE IF ~shouldRunSuite(s) THEN <<>>
    ELSE <<Frame(s, "beforeAll", 1, parentHooks)>>

ChildrenOf(f) ==
    IF f.pc = "suites" THEN testContext.suites ELSE suiteTab[f.suite].suites

\* for (const suite of ...) await this.runSuite(suite, ...)
RunSuite ==
    /\ stack # <<>>
    /\ LET f == Top(stack)
       IN /\ f.pc \in {"suites", "nested", "skipNested"}
          /\ f.i <= Len(ChildrenOf(f))
          /\ LET child == ChildrenOf(f)[f.i]
             IN /\ stack' = Norm(SetTop(stack, [f EXCEPT !.i = f.i + 1])
                                 \o EnterSuite(child, f.hooks))
                /\ results' = IF suiteTab[child].skip
                              THEN results \o SkippedResults(child)
                              ELSE results
    /\ regLog' = <<>>
    /\ sideLog' = <<>>
    /\ UNCHANGED <<load, testContext, suiteTab, testTab, fnTab, globalTimeout,
                   attemptLog,
                   testHooksRegistry, tx, cur, zombies, reporter, bodyRuns,
                   regCount>>

\* runSuite without its try block: the loop goes on after a throw
GoOn(st, error) == Norm(SetTop(st, [Top(st) EXCEPT !.i = @ + 1]))

\* the catch block of runSuite
Catch(st, error) == Norm(SetTop(st, [Top(st) EXCEPT !.pc = "exit"]))

\* how await withTimeout(hook, 10000) may end
SuiteHookOutcomes(hook) ==
    (IF Called(hook, Null).returns THEN {NoError} ELSE {})
    \cup Called(hook, Null).throws
    \cup (IF Called(hook, Null).slow THEN {TimeoutError(HOOK_TIMEOUT)} ELSE {})

-----------------------------------------------------------------------------
\* test-hooks.js: the registry of onTestFinished / onTestFailed callbacks.
\* A Map is a function whose domain is the set of its keys.

MapGet(m, k) == IF k \in DOMAIN m THEN m[k] ELSE <<>>
MapSet(m, k, v) == [x \in DOMAIN m \cup {k} |-> IF x = k THEN v ELSE m[x]]
MapDelete(m, k) == [x \in DOMAIN m \ {k} |-> m[x]]
EmptyMap == [x \in {} |-> <<>>]

setCurrentTestId(reg, testId) ==
    [onTestFinished |-> IF testId \in DOMAIN reg.onTestFinished
                        THEN reg.onTestFinished
                        ELSE MapSet(reg.onTestFinished, testId, <<>>),
     onTestFailed |-> IF testId \in DOMAIN reg.onTestFailed
                      THEN reg.onTestFailed
                      ELSE MapSet(reg.onTestFailed, testId, <<>>),
     currentTestId |-> testId]

clearTestHooks(reg, testId) ==
    [reg EXCEPT !.onTestFinished = MapDelete(@, testId),
                !.onTestFailed = MapDelete(@, testId)]

\* onTestFinished(fn) / onTestFailed(fn) when a current test id is set
onTestHook(reg, kind, fn) ==
    [reg EXCEPT ![kind] = MapSet(@, reg.currentTestId,
                                 Append(MapGet(@, reg.currentTestId), fn))]

RegKinds == {"onTestFinished", "onTestFailed"}

-----------------------------------------------------------------------------
\* expect.js withTimeout: the race of a unit of work against a timer.

Body(t) == Hook("body", t, 0)
IsBody(step) == step[1] = "body"

NoUnit == [test |-> Null, attempt |-> 0, steps |-> <<>>, p |-> 0,
           callLog |-> <<>>, race |-> "none", raceError |-> NoError,
           timer |-> "none", timeout |-> 0, alive |-> FALSE,
           hookThrew |-> FALSE]

\* the unit of work with the afterEach hooks called in registration order
UnitStepsUnreversed(t, hooks) ==
    hooks.beforeEach \o <<Body(t)>> \o hooks.afterEach

\* the async function runTestWithHooks hands to withTimeout: the beforeEach
\* hooks, the body, the afterEach hooks from the last one to the first
UnitSteps(t, hooks) ==
    hooks.beforeEach \o <<Body(t)>> \o Reverse(hooks.afterEach)

\* a step of the unit of work is called
Invoke(u, p) == [u EXCEPT !.p = p, !.callLog = Append(@, u.steps[p])]

\* withTimeout(fn, timeout): the timer is armed and fn is started
withTimeout(t, attempt, hooks, timeout) ==
    Invoke([test |-> t, attempt |-> attempt, steps |-> UnitSteps(t, hooks),
            p |-> 0, callLog |-> <<>>, race |-> "pending",
            raceError |-> NoError, timer |-> "armed", timeout |-> timeout,
            alive |-> TRUE, hookThrew |-> FALSE], 1)

\* the handlers without clearTimeout(timeoutId)
OnSettleKeepsTimer(u, race, error) ==
    [u EXCEPT !.race = IF @ = "pending" THEN race ELSE @,
              !.raceError = IF u.race = "pending" THEN error ELSE @,
              !.alive = FALSE]

\* the handlers settling a promise that the timer has already rejected
OnSettleOverrides(u, race, error) ==
    [u EXCEPT !.timer = IF @ = "armed" THEN "cleared" ELSE @,
              !.race = race, !.raceError = error, !.alive = FALSE]

\* the .then / .catch handlers: clearTimeout(timeoutId), then resolve or
\* reject, which has no effect on a promise already settled
OnSettle(u, race, error) ==
    [u EXCEPT !.timer = IF @ = "armed" THEN "cleared" ELSE @,
              !.race = IF @ = "pending" THEN race ELSE @,
              !.raceError = IF u.race = "pending" THEN error ELSE @,
              !.alive = FALSE]

\* the setTimeout callback: reject(new Error(`Test timed out after ...`))
OnTimer(u) ==
    [u EXCEPT !.timer = "fired",
              !.race = IF @ = "pending" THEN "timedout" ELSE @,
              !.raceError = IF u.race = "pending"
                            THEN TimeoutError(u.timeout) ELSE @]

\* the unit of work without the catch clauses around its hooks
Unwrapped(step, e) == e

\* the error a failing step rejects the unit of work with
Wrap(step, e) ==
    CASE step[1] = "beforeEach" -> BeforeEachFailed(e)
      [] step[1] = "afterEach" -> AfterEachFailed(e)
      [] OTHER -> e

\* the running step returns: the next step is called, or the unit resolves
StepOk(u) ==
    IF u.p < Len(u.steps) THEN Invoke(u, u.p + 1)
    ELSE OnSettle(u, "resolved", NoError)

\* the running step throws e
StepThrow(u, e) ==
    OnSettle([u EXCEPT !.hookThrew = @ \/ ~IsBody(u.steps[u.p])],
             "rejected", Wrap(u.steps[u.p], e))

\* the call unit u is in
Running(u) == Called(u.steps[u.p], u.test)

StepResults(u) ==
    (IF Running(u).returns THEN {StepOk(u)} ELSE {})
    \cup {StepThrow(u, e) : e \in Running(u).throws}

\* bodyRuns after unit u became unit v
CountBody(u, v) ==
    IF v.p # u.p /\ v.alive /\ IsBody(v.steps[v.p])
    THEN [bodyRuns EXCEPT ![v.test] = @ + 1] ELSE bodyRuns

-----------------------------------------------------------------------------
\* TestRunner.runTestWithHooks

NoTx == [test |-> Null, pc |-> "none", attempts |-> 0, lastError |-> NoError,
         result |-> UndefinedResult, j |-> 0]

Plus1(n) == IF n = Undefined THEN NaN ELSE n + 1
LessThan(a, b) == a # NaN /\ b # NaN /\ a < b
maxAttempts(t) == Plus1(testTab[t].retry)

\* test.timeout || undefined, then the default parameter of withTimeout
testTimeout(t) ==
    IF testTab[t].timeout # 0 THEN testTab[t].timeout ELSE globalTimeout

\* the runner is suspended on a callback that takes time, so that other
\* pending work (timers, abandoned units of work) may run meanwhile
RunnerAwaiting ==
    \/ tx.pc = "await" /\ cur.race = "pending" /\ Running(cur).slow
    \/ /\ tx.pc = "cleanup"
       /\ Called(Top(stack).hooks.afterEach[tx.j], tx.test).slow
    \/ tx.pc \in {"failedHooks", "finishedHooks"}
    \/ /\ tx.pc = "none" /\ stack # <<>>
       /\ \/ /\ Top(stack).pc = "beforeAll"
             /\ Called(suiteTab[Top(stack).suite].hooks.beforeAll[Top(stack).i],
                       Null).slow
          \/ /\ Top(stack).pc = "afterAll"
             /\ Called(suiteTab[Top(stack).suite].hooks.afterAll[Top(stack).i],
                       Null).slow

\* runTestWithHooks returns result to runSuite: results.push(result),
\* this.reporter.onTestEnd(result); reading the status of an undefined result
\* throws into the catch block of runSuite
ReturnTo(result, reg) ==
    /\ tx' = NoTx
    /\ testHooksRegistry' = reg
    /\ reporter' = onTestEnd(reporter, result)
    /\ IF result = UndefinedResult
       THEN /\ stack' = Catch(stack, TypeErrorUndefined)
            /\ results' = Append(results, result) \o
                   SuiteFailedResults(Top(stack).suite, TypeErrorUndefined)
       ELSE /\ stack' = Norm(SetTop(stack, [Top(stack) EXCEPT !.i = @ + 1]))
            /\ results' = Append(results, result)

\* runTestWithHooks throws error into the catch block of runSuite
ThrowTo(error, reg) ==
    /\ tx' = NoTx
    /\ testHooksRegistry' = reg
    /\ reporter' = reporter
    /\ stack' = Catch(stack, error)
    /\ results' = results \o SuiteFailedResults(Top(stack).suite, error)

\* the finally block, entered with result assigned
Finally(t, result, reg) ==
    LET base == [NoTx EXCEPT !.test = t, !.result = result,
                             !.attempts = tx.attempts, !.lastError = tx.lastError]
    IN IF result.status = "failed" /\ Len(MapGet(reg.onTestFailed, t)) > 0
       THEN /\ tx' = [base EXCEPT !.pc = "failedHooks",
                                  !.j = Len(MapGet(reg.onTestFailed, t))]
            /\ testHooksRegistry' = reg
            /\ UNCHANGED <<stack, results, reporter>>
       ELSE IF Len(MapGet(reg.onTestFinished, t)) > 0
       THEN /\ tx' = [base EXCEPT !.pc = "finishedHooks",
                                  !.j = Len(MapGet(reg.onTestFinished, t))]
            /\ testHooksRegistry' = reg
            /\ UNCHANGED <<stack, results, reporter>>
       ELSE ReturnTo(result, clearTestHooks(reg, t))

\* the end of the catch block of an attempt: the last attempt assigns result,
\* otherwise the loop starts the next attempt (which assigns lastError before
\* anything reads it: the model forgets its value meanwhile)
AfterCatch(t, e) ==
    IF ~LessThan(tx.attempts, maxAttempts(t))
    THEN /\ Finally(t, IF testTab[t].fails
                       THEN MkResult(t, "passed", NoError)
                       ELSE MkResult(t, "failed", e),
                    testHooksRegistry)
         /\ cur' = NoUnit
         /\ bodyRuns' = bodyRuns
    ELSE /\ tx' = [tx EXCEPT !.pc = "await", !.attempts = @ + 1,
                             !.lastError = NoError, !.j = 0]
         /\ cur' = withTimeout(t, tx.attempts + 1, Top(stack).hooks,
                               testTimeout(t))
         /\ bodyRuns' = CountBody(NoUnit, cur')
         /\ UNCHANGED <<testHooksRegistry, stack, results, reporter>>

\* const result = await this.runTestWithHooks(test, ...), up to its first await
RunTest ==
    /\ stack # <<>>
    /\ tx = NoTx
    /\ Top(stack).pc = "tests"
    /\ LET t == suiteTab[Top(stack).suite].tests[Top(stack).i]
           reg == setCurrentTestId(testHooksRegistry, t)
       IN IF testTab[t].skip
          THEN /\ Finally(t, MkResult(t, "skipped", NoError), reg)
               /\ UNCHANGED <<cur, bodyRuns>>
          ELSE IF testTab[t].todo
          THEN /\ Finally(t, MkResult(t, "todo", NoError), reg)
               /\ UNCHANGED <<cur, bodyRuns>>
          ELSE IF ~LessThan(0, maxAttempts(t))
          THEN /\ ReturnTo(UndefinedResult, clearTestHooks(reg, t))
               /\ UNCHANGED <<cur, bodyRuns>>
          ELSE /\ tx' = [NoTx EXCEPT !.test = t, !.pc = "await", !.attempts = 1]
               /\ testHooksRegistry' = reg
               /\ cur' = withTimeout(t, 1, Top(stack).hooks, testTimeout(t))
               /\ bodyRuns' = CountBody(NoUnit, cur')
               /\ UNCHANGED <<stack, results, reporter>>
    /\ regLog' = <<>>
    /\ sideLog' = <<>>
    /\ UNCHANGED <<load, testContext, suiteTab, testTab, fnTab, globalTimeout,
                   attemptLog, zombies,
                   regCount>>

\* the step the awaited unit of work is running returns or throws
UnitStep ==
    /\ tx.pc = "await"
    /\ cur.race = "pending"
    /\ \E v \in StepResults(cur) :
         /\ cur' = v
         /\ bodyRuns' = CountBody(cur, v)
    /\ UNCHANGED <<load, testContext, suiteTab, testTab, fnTab, globalTimeout,
                   attemptLog,
                   testHooksRegistry, stack, tx, zombies, results, reporter,
                   regCount, regLog, sideLog>>

\* the timer of the awaited race fires
Deadline ==
    /\ tx.pc = "await"
    /\ cur.timer = "armed"
    /\ cur.alive => /\ Running(cur).slow
                    /\ Len(zombies) < MaxZombies
    /\ cur' = OnTimer(cur)
    /\ UNCHANGED <<load, testContext, suiteTab, testTab, fnTab, globalTimeout,
                   attemptLog,
                   testHooksRegistry, stack, tx, zombies, results, reporter,
                   bodyRuns, regCount, regLog, sideLog>>

\* what is kept of an abandoned unit of work once it has settled
Retired(u) ==
    [NoUnit EXCEPT !.test = u.test, !.race = u.race, !.timer = u.timer,
                   !.raceError = u.raceError, !.timeout = u.timeout]

\* a unit of work abandoned at its deadline goes on running
ZombieStep ==
    /\ RunnerAwaiting
    /\ \E k \in DOMAIN zombies :
         /\ zombies[k].alive
         /\ \E v \in StepResults(zombies[k]) :
              /\ zombies' = [zombies EXCEPT ![k] = IF v.alive THEN v
                                                   ELSE Retired(v)]
              /\ bodyRuns' = CountBody(zombies[k], v)
    /\ UNCHANGED <<load, testContext, suiteTab, testTab, fnTab, globalTimeout,
                   attemptLog,
                   testHooksRegistry, stack, tx, cur, results, reporter,
                   regCount, regLog, sideLog>>

\* the units of work whose body is running
RunningBodies ==
    (IF tx.pc = "await" /\ cur.race = "pending" /\ IsBody(cur.steps[cur.p])
     THEN {cur} ELSE {})
    \cup (IF RunnerAwaiting
          THEN {zombies[k] : k \in {x \in DOMAIN zombies :
                                 /\ zombies[x].alive
                                 /\ IsBody(zombies[x].steps[zombies[x].p])}}
          ELSE {})

\* a running body that may call onTestFinished / onTestFailed
Registers(u) == Running(u).registers

\* the n-th callback registered in the run, created by the body of unit u
Fn(u, n) == [by |-> u.test, attempt |-> u.attempt, n |-> n]

\* a running test body calls onTestFinished(fn) or onTestFailed(fn)
BodyRegister ==
    /\ regCount < MaxReg
    /\ testHooksRegistry.currentTestId # Null
    /\ regCount' = regCount + 1
    /\ \E u \in RunningBodies, kind \in RegKinds :
         /\ Registers(u)
         /\ testHooksRegistry' =
                onTestHook(testHooksRegistry, kind, Fn(u, regCount + 1))
         /\ regLog' = Append(regLog,
                [kind |-> kind, fn |-> Fn(u, regCount + 1),
                 id |-> testHooksRegistry.currentTestId,
                 live |-> tx.pc \in {"await", "cleanup"}])
    /\ UNCHANGED <<load, testContext, suiteTab, testTab, fnTab, globalTimeout,
                   attemptLog, stack, tx,
                   cur, zombies, results, reporter, bodyRuns, sideLog>>

\* a call of a suite hook: how it ends (e), and the registry and the count
\* of side-channel calls it leaves.  A hook that calls onTestFinished(fn) or
\* onTestFailed(fn) throws the usage error of that call when no current test
\* id is set, and registers fn under the current test id otherwise.
SuiteHookCalls(hook) ==
    IF Called(hook, Null).registers /\ regCount < MaxReg
    THEN IF testHooksRegistry.currentTestId = Null
         THEN {[reg |-> testHooksRegistry, n |-> regCount + 1,
                e |-> UsageError(kind)] : kind \in RegKinds}
         ELSE {[reg |-> onTestHook(testHooksRegistry, kind,
                                   Fn(NoUnit, regCount + 1)),
                n |-> regCount + 1, e |-> e] :
                  kind \in RegKinds, e \in SuiteHookOutcomes(hook)}
    ELSE {[reg |-> testHooksRegistry, n |-> regCount, e |-> e] :
             e \in SuiteHookOutcomes(hook)}

\* the error the catch block of a suite hook leaves with: the error it
\* builds or logs from hookError.message, or the TypeError of reading the
\* message of null
HookCaught(e, wrapped) == IF IsNullish(e) THEN TypeErrorNull ELSE wrapped

\* await withTimeout(hook, 10000) for the next beforeAll hook
BeforeAllHook ==
    /\ stack # <<>>
    /\ Top(stack).pc = "beforeAll"
    /\ LET f == Top(stack)
       IN \E o \in SuiteHookCalls(suiteTab[f.suite].hooks.beforeAll[f.i]) :
            /\ testHooksRegistry' = o.reg
            /\ regCount' = o.n
            /\ IF o.e = NoError
               THEN /\ stack' = Norm(SetTop(stack, [f EXCEPT !.i = f.i + 1]))
                    /\ results' = results
               ELSE LET error == HookCaught(o.e, BeforeAllFailed(o.e))
                    IN /\ stack' = Catch(stack, error)
                       /\ results' = results \o
                              SuiteFailedResults(f.suite, error)
    /\ regLog' = <<>>
    /\ sideLog' = <<>>
    /\ UNCHANGED <<load, testContext, suiteTab, testTab, fnTab, globalTimeout,
                   attemptLog, tx, cur, zombies, reporter, bodyRuns>>

\* await withTimeout(suite.hooks.afterAll[i], 10000), last registered first;
\* a failure is only logged, with hookError.message; when that read throws,
\* the TypeError leaves the loop for the catch block of runSuite
AfterAllHook ==
    /\ stack # <<>>
    /\ Top(stack).pc = "afterAll"
    /\ LET f == Top(stack)
       IN \E o \in SuiteHookCalls(suiteTab[f.suite].hooks.afterAll[f.i]) :
            /\ testHooksRegistry' = o.reg
            /\ regCount' = o.n
            /\ IF IsNullish(o.e)
               THEN /\ stack' = Catch(stack, HookCaught(o.e, o.e))
                    /\ results' = results \o
                           SuiteFailedResults(f.suite, HookCaught(o.e, o.e))
               ELSE /\ stack' = Norm(SetTop(stack, [f EXCEPT !.i = f.i - 1]))
                    /\ results' = results
    /\ regLog' = <<>>
    /\ sideLog' = <<>>
    /\ UNCHANGED <<load, testContext, suiteTab, testTab, fnTab, globalTimeout,
                   attemptLog, tx, cur, zombies, reporter, bodyRuns>>

\* how the attempt of unit u ended: it passed, its deadline fired, a hook
\* threw or the body threw
Outcome(u) ==
    CASE u.race = "resolved" -> "pass"
      [] u.race = "timedout" -> "timeout"
      [] u.hookThrew -> "hook"
      [] OTHER -> "body"

\* the race of the attempt has settled: the code after await withTimeout(...)
\* or the catch block of the attempt
AttemptSettled ==
    /\ tx.pc = "await"
    /\ cur.race \in {"resolved", "rejected", "timedout"}
    /\ LET t == tx.test
           e == cur.raceError
           ae == Top(stack).hooks.afterEach
       IN IF cur.race = "resolved"
          THEN /\ Finally(t, IF testTab[t].fails
                             THEN MkResult(t, "failed", ExpectedToFailError)
                             ELSE MkResult(t, "passed", NoError),
                          testHooksRegistry)
               /\ cur' = NoUnit
               /\ UNCHANGED <<zombies, bodyRuns>>
          ELSE /\ zombies' = IF cur.alive THEN Append(zombies, cur) ELSE zombies
               /\ IF ~HasMessage(e)
                  THEN /\ ThrowTo(TypeErrorUndefined,
                                  clearTestHooks(testHooksRegistry, t))
                       /\ cur' = NoUnit
                       /\ bodyRuns' = bodyRuns
                  ELSE IF ~IncludesTimedOut(e.message) /\ Len(ae) > 0
                  THEN /\ tx' = [tx EXCEPT !.pc = "cleanup", !.lastError = e,
                                           !.j = Len(ae)]
                       /\ cur' = [cur EXCEPT !.callLog = Append(@, ae[Len(ae)])]
                       /\ UNCHANGED <<testHooksRegistry, stack, results,
                                      reporter, bodyRuns>>
                  ELSE AfterCatch(t, e)
    /\ attemptLog' = [attemptLog EXCEPT ![tx.test] = Append(@, Outcome(cur))]
    /\ UNCHANGED <<load, testContext, suiteTab, testTab, fnTab, globalTimeout,
                   regCount, regLog, sideLog>>

\* await hooks.afterEach[i]() in the catch block of a failed attempt
CleanupStep ==
    /\ tx.pc = "cleanup"
    /\ LET ae == Top(stack).hooks.afterEach
       IN \/ /\ tx.j > 1
             /\ Called(ae[tx.j], tx.test).returns
             /\ tx' = [tx EXCEPT !.j = @ - 1]
             /\ cur' = [cur EXCEPT !.callLog = Append(@, ae[tx.j - 1])]
             /\ UNCHANGED <<testHooksRegistry, stack, results, reporter,
                            bodyRuns>>
          \/ /\ tx.j = 1
             /\ Called(ae[tx.j], tx.test).returns
             /\ AfterCatch(tx.test, tx.lastError)
          \/ \E e \in Called(ae[tx.j], tx.test).throws :
                AfterCatch(tx.test, tx.lastError)
    /\ UNCHANGED <<load, testContext, suiteTab, testTab, fnTab, globalTimeout,
                   attemptLog, zombies,
                   regCount, regLog, sideLog>>

SideHookOutcomes == {"ok", "throw", "throwNull"}

\* await hooks[i](testResult) in executeOnTestFailedHooks or
\* executeOnTestFinishedHooks
SideHookStep ==
    /\ tx.pc \in {"failedHooks", "finishedHooks"}
    /\ LET t == tx.test
           kind == IF tx.pc = "failedHooks" THEN "onTestFailed"
                   ELSE "onTestFinished"
           hooks == MapGet(testHooksRegistry[kind], t)
           finished == MapGet(testHooksRegistry.onTestFinished, t)
       IN /\ sideLog' = Append(sideLog, [kind |-> kind, id |-> t,
                                         fn |-> hooks[tx.j]])
          /\ \E o \in SideHookOutcomes :
               IF o = "throwNull"
               THEN ReturnTo(tx.result, clearTestHooks(testHooksRegistry, t))
               ELSE IF tx.j > 1
               THEN /\ tx' = [tx EXCEPT !.j = @ - 1]
                    /\ UNCHANGED <<testHooksRegistry, stack, results, reporter>>
               ELSE IF tx.pc = "failedHooks" /\ Len(finished) > 0
               THEN /\ tx' = [tx EXCEPT !.pc = "finishedHooks",
                                        !.j = Len(finished)]
                    /\ UNCHANGED <<testHooksRegistry, stack, results, reporter>>
               ELSE ReturnTo(tx.result, clearTestHooks(testHooksRegistry, t))
    /\ UNCHANGED <<load, testContext, suiteTab, testTab, fnTab, globalTimeout,
                   attemptLog, cur,
                   zombies, bodyRuns, regCount, regLog>>

-----------------------------------------------------------------------------
\* The run of one module whose tree has been built.

BuiltSuite(form, s, tests, suites) ==
    [form EXCEPT !.tests = tests, !.suites = suites,
                 !.hooks = RegisteredHooks(s)]

AllHooks ==
    UNION {Range(RegisteredHooks(s).beforeAll) \cup Range(RegisteredHooks(s).beforeEach)
           \cup Range(RegisteredHooks(s).afterAll) \cup Range(RegisteredHooks(s).afterEach)
           : s \in SuiteIds}

\* the callbacks of a module and the calls made of them: a test body is
\* called for its test, a lifecycle hook for a test or for a suite (Null)
Calls == (AllHooks \cup {Body(t) : t \in TestIds}) \X (TestIds \cup {Null})

\* the state after the module that registers the suites in the forms f1, f2,
\* with the tests tests1 in suite 1 and tests2 in suite 2, in the forms tf,
\* has been loaded; fns gives what each call of a callback does
\* await import(fileUrl) has returned: no registration call is pending and
\* nothing was thrown
ModuleLoaded == [pc |-> "loaded", frames |-> <<>>, error |-> NoError,
                 cases |-> <<>>, name |-> <<>>]

LoadedModule(tests1, tests2, f1, f2, tf, fns) ==
    /\ load = ModuleLoaded
    /\ suiteTab = [s \in SuiteIds |->
                      IF s = 1 THEN BuiltSuite(f1, 1, tests1, <<2>>)
                      ELSE BuiltSuite(f2, 2, tests2, <<>>)]
    /\ testTab = tf
    /\ fnTab = fns
    /\ testContext =
         [suites |-> <<1>>, currentSuite |-> Null,
          hasOnly |-> \/ f1.only \/ f2.only
                      \/ \E t \in TestIds : tf[t] = it_only]
    /\ globalTimeout = DEFAULT_TIMEOUT
    /\ testHooksRegistry = [onTestFinished |-> EmptyMap,
                            onTestFailed |-> EmptyMap,
                            currentTestId |-> Null]
    /\ stack = <<Frame(Null, "suites", 1, NoEachHooks)>>
    /\ tx = NoTx
    /\ cur = NoUnit
    /\ zombies = <<>>
    /\ results = <<>>
    /\ reporter = [results |-> <<>>, total |-> 0]
    /\ bodyRuns = [t \in TestIds |-> 0]
    /\ attemptLog = [t \in TestIds |-> <<>>]
    /\ regCount = 0
    /\ regLog = <<>>
    /\ sideLog = <<>>

\* the module whose tests have the bodies tb and whose lifecycle hooks behave
\* as sh when called for a suite (Null) and as th[t] when called for test t
LoadedTree(tests1, tests2, f1, f2, tf, tb, th, sh) ==
    LoadedModule(tests1, tests2, f1, f2, tf,
                 [c \in Calls |->
                    IF IsBody(c[1]) THEN tb[c[1][2]]
                    ELSE IF c[2] = Null THEN sh
                    ELSE th[c[2]]])

\* the module with tests 1 and 2 in the root suite and test 3 in the suite
\* nested in it
Loaded(f1, f2, tf, tb, th, sh) ==
    LoadedTree(<<1, 2>>, <<3>>, f1, f2, tf, tb, th, sh)

\* the tests other than the one under study: a plain test that passes, a
\* plain test that throws a string, a passing test with the option only
OtherTests == {<<it(NoOptions), PassingBody>>,
               <<it(NoOptions), StringThrowingBody>>,
               <<it([NoOptions EXCEPT !.only = TRUE]), PassingBody>>}

\* the body of the test under study and the each-hooks called for it
StudiedTests == {<<PassingBody, QuickHook>>, <<TimingBody, AnyHook>>,
                 <<RegisteringBody, QuickHook>>, <<LateBody, QuickHook>>}
\* the beforeAll and afterAll hooks
SuiteHooks == {QuickHook, AnyHook}

\* the test under study: the first test of the root suite or the test of the
\* nested suite
StudiedIds == {1, 3}

\* one test is registered in any form
Init ==
    \E f1 \in SuiteForms, f2 \in SuiteForms, focus \in StudiedIds :
      \E form \in TestForms, studied \in StudiedTests, sh \in SuiteHooks,
         others \in [TestIds \ {focus} -> OtherTests] :
         Loaded(f1, f2,
                [t \in TestIds |-> IF t = focus THEN form ELSE others[t][1]],
                [t \in TestIds |-> IF t = focus THEN studied[1] ELSE others[t][2]],
                [t \in TestIds |-> IF t = focus THEN studied[2] ELSE QuickHook],
                sh)

Next ==
    \/ RunSuite
    \/ BeforeAllHook
    \/ RunTest
    \/ UnitStep
    \/ Deadline
    \/ ZombieStep
    \/ BodyRegister
    \/ AttemptSettled
    \/ CleanupStep
    \/ SideHookStep
    \/ AfterAllHook

Spec == Init /\ [][Next]_vars

\* the modules in which the test under study is the test of the nested suite:
\* it is registered in any form, its body may outlast the timeout, the other
\* tests are plain passing tests and the suite hooks may throw or be slow
NestedTests == {<<TimingBody, AnyHook>>, <<LateBody, QuickHook>>}

NestedInit ==
    \E f1 \in SuiteForms, f2 \in SuiteForms :
      \E form \in TestForms, studied \in NestedTests :
         Loaded(f1, f2,
                [t \in TestIds |-> IF t = 3 THEN form ELSE it(NoOptions)],
                [t \in TestIds |-> IF t = 3 THEN studied[1] ELSE PassingBody],
                [t \in TestIds |-> IF t = 3 THEN studied[2] ELSE QuickHook],
                AnyHook)

NestedSpec == NestedInit /\ [][Next]_vars

\* the modules with three sibling tests in the root suite and an empty nested
\* suite: the first test is registered plainly, with a timeout or with a
\* retry, every body may register side-channel hooks, and the suite hooks
\* may throw, be slow or call onTestFinished / onTestFailed themselves
SiblingBodies == {PassingBody, LateBody, RegisteringBody}
SiblingForms == {it(NoOptions), it([NoOptions EXCEPT !.timeout = CustomTimeout]),
                 it([NoOptions EXCEPT !.retry = 1])}

SiblingInit ==
    \E form \in SiblingForms, bodies \in [TestIds -> SiblingBodies],
       sh \in {AnyHook, RegisteringHook} :
       LoadedTree(<<1, 2, 3>>, <<>>, describe, describe,
                  [t \in TestIds |-> IF t = 1 THEN form ELSE it(NoOptions)],
                  bodies, [t \in TestIds |-> QuickHook], sh)

SiblingSpec == SiblingInit /\ [][Next]_vars

\* a callback that never settles: it neither returns nor throws
NeverSettles == Callback(FALSE, {}, TRUE, FALSE)
\* a body that throws an ordinary Error
FailingBody == Callback(FALSE, {MkError(<<"boom">>)}, FALSE, FALSE)

\* the modules in which a callback may never settle: the body of the second
\* test of the root suite (which may also pass, throw, or be slow and
\* register side-channel hooks), the afterEach hook called for that test, the
\* beforeAll hooks, the afterAll hooks; the other callbacks return at once
HangInit ==
    \E body \in {PassingBody, FailingBody, LateBody, NeverSettles},
       ae \in {QuickHook, NeverSettles},
       ba \in {QuickHook, NeverSettles},
       aa \in {QuickHook, NeverSettles} :
       LoadedModule(<<1, 2>>, <<3>>, describe, describe,
                    [t \in TestIds |-> it(NoOptions)],
                    [c \in Calls |->
                       IF IsBody(c[1])
                       THEN (IF c[1][2] = 2 THEN body ELSE PassingBody)
                       ELSE IF c[1][1] = "beforeAll" THEN ba
                       ELSE IF c[1][1] = "afterAll" THEN aa
                       ELSE IF c[1][1] = "afterEach" /\ c[2] = 2 THEN ae
                       ELSE QuickHook])

\* the event loop runs every continuation that is ready and fires every
\* timer that is armed
HangSpec == HangInit /\ [][Next]_vars /\ WF_vars(Next) /\ WF_vars(Deadline)

TypeOK ==
    /\ tx.pc \in {"none", "await", "cleanup", "failedHooks", "finishedHooks"}
    /\ Len(zombies) <= MaxZombies

---------------------------------------------------------------------------
\* The declared tree, as the properties below speak of it.

\* the suite a test was declared in, the suite a suite was declared in
SuiteOf(t) ==
    CHOOSE s \in SuiteIds : \E k \in DOMAIN suiteTab[s].tests :
                                suiteTab[s].tests[k] = t
ParentOf(s) ==
    IF \E q \in SuiteIds : \E k \in DOMAIN suiteTab[q].suites :
                               suiteTab[q].suites[k] = s
    THEN CHOOSE q \in SuiteIds : \E k \in DOMAIN suiteTab[q].suites :
                                     suiteTab[q].suites[k] = s
    ELSE Null

\* the suites from the root suite down to suite s
RECURSIVE PathTo(_)
PathTo(s) == IF s = Null THEN <<>> ELSE Append(PathTo(ParentOf(s)), s)

\* the beforeEach hooks of the suites of a path, outermost suite first, in
\* registration order within a suite
RECURSIVE OuterFirst(_)
OuterFirst(path) ==
    IF path = <<>> THEN <<>>
    ELSE suiteTab[Head(path)].hooks.beforeEach \o OuterFirst(Tail(path))

\* the afterEach hooks of the suites of a path, innermost suite first, last
\* registered first within a suite
RECURSIVE InnerFirst(_)
InnerFirst(path) ==
    IF path = <<>> THEN <<>>
    ELSE InnerFirst(Tail(path)) \o Reverse(suiteTab[Head(path)].hooks.afterEach)

\* the call order the documentation gives for one attempt of test t
CallOrder(t) ==
    OuterFirst(PathTo(SuiteOf(t))) \o <<Body(t)>>
        \o InnerFirst(PathTo(SuiteOf(t)))

\* no suite above test t is skip-flagged
NoSkipAbove(t) ==
    \A k \in DOMAIN PathTo(SuiteOf(t)) : ~suiteTab[PathTo(SuiteOf(t))[k]].skip

Position(seq, x) == CHOOSE k \in DOMAIN seq : seq[k] = x

\* the calls of log are calls of order, made once each in the order of order
InOrder(log, order) ==
    /\ \A k \in DOMAIN log : log[k] \in Range(order)
    /\ \A i, j \in DOMAIN log :
          i < j => Position(order, log[i]) < Position(order, log[j])

IsPrefix(log, order) ==
    Len(log) <= Len(order) /\ log = SubSeq(order, 1, Len(log))

\* the units of work whose calls are on record: the awaited one and the
\* abandoned ones still running
LiveUnits ==
    (IF tx.pc \in {"await", "cleanup"} THEN {cur} ELSE {})
    \cup {zombies[k] : k \in {x \in DOMAIN zombies : zombies[x].alive}}

\* every unit of work that was ever raced against a timer and is on record
RacedUnits ==
    (IF tx.pc \in {"await", "cleanup"} THEN {cur} ELSE {}) \cup Range(zombies)

\* the run of the module is over
Done == stack = <<>>

\* the Results of test t, in sequence order
ResultsOf(t) == SelectSeq(results, LAMBDA r : r.test = t)

-----------------------------------------------------------------------------
RaceSettlesOnce ==
    /\ \A u \in RacedUnits :
          /\ u.race \in {"pending", "resolved", "rejected", "timedout"}
          /\ u.race = "pending" => u.timer = "armed" /\ u.alive
          /\ u.race \in {"resolved", "rejected"} =>
                /\ u.timer = "cleared"
                /\ ~u.alive
                /\ u.raceError # TimeoutError(u.timeout)
          /\ u.race = "resolved" => u.raceError = NoError
          /\ u.timer = "fired" <=> u.race = "timedout"
          /\ u.race = "timedout" => u.raceError = TimeoutError(u.timeout)
    /\ \A k \in DOMAIN zombies :
          LET z == zombies[k]
          IN (tx.test # z.test /\ maxAttempts(z.test) = 1
                               /\ ~testTab[z.test].fails) =>
                /\ Len(ResultsOf(z.test)) >= 1
                /\ ResultsOf(z.test)[1] =
                       MkResult(z.test, "failed", TimeoutError(z.timeout))

\* a unit of work abandoned at its deadline has settled since, after the
\* timeout failure of its test was recorded
RaceSettlesOnceWitness ==
    \E k \in DOMAIN zombies :
       /\ ~zombies[k].alive
       /\ zombies[k].timer = "fired"
       /\ tx.test # zombies[k].test
       /\ Len(ResultsOf(zombies[k].test)) >= 1

-----------------------------------------------------------------------------
\* Vocabulary of the properties about only, retry, fails and timeout.

\* every callback of the module returns at once and never throws
EveryCallbackReturns == \A key \in DOMAIN fnTab : fnTab[key] = QuickHook

\* a suite on the path to test t is flagged only
UnderOnlySuite(t) ==
    \E k \in DOMAIN PathTo(SuiteOf(t)) : suiteTab[PathTo(SuiteOf(t))[k]].only

\* some suite or test of the module is flagged only
AnyOnly ==
    \/ \E s \in SuiteIds : suiteTab[s].only
    \/ \E t \in TestIds : testTab[t].only

\* a test or suite below suite s is flagged only
RECURSIVE OnlyBelow(_)
OnlyBelow(s) ==
    \/ \E t \in Range(suiteTab[s].tests) : testTab[t].only
    \/ \E q \in Range(suiteTab[s].suites) : suiteTab[q].only \/ OnlyBelow(q)

\* the runner is inside suite s, past its skip and only checks
Entered(s) ==
    \E k \in DOMAIN stack :
       /\ stack[k].suite = s
       /\ stack[k].pc \in {"beforeAll", "tests", "nested", "afterAll"}

LastOf(seq) == seq[Len(seq)]

\* the errors an attempt of test t can end with
AttemptErrors(t) ==
    BodyThrows
    \cup {BeforeEachFailed(e) : e \in HookThrows}
    \cup {AfterEachFailed(e) : e \in HookThrows}
    \cup {TimeoutError(testTimeout(t))}

\* message m contains 'timed out after <T>ms'
MentionsTimedOutAfter(m, T) ==
    LET needle == <<FragTimedOut, " after ">> \o NumberText(T) \o <<"ms">>
    IN \E i \in 1..(Len(m) - Len(needle) + 1) :
          SubSeq(m, i, i + Len(needle) - 1) = needle

-----------------------------------------------------------------------------
\* C2: a test registered with it.only, in a suite that is not skipped, runs
\* normally: in a module whose callbacks all return at once, when the run is
\* over its body has been executed exactly once and the Result sequence
\* holds exactly one Result for it, passed and without error.
OnlyTestRunsNormally ==
    (Done /\ EveryCallbackReturns) =>
       \A t \in TestIds :
          (testTab[t] = it_only /\ NoSkipAbove(t)) =>
             /\ bodyRuns[t] = 1
             /\ ResultsOf(t) = <<MkResult(t, "passed", NoError)>>

\* C3: the tests contained in a suite registered with describe.only that are
\* not flagged only themselves count as only through that suite: when the
\* run is over each has been executed and has a Result.
DescribeOnlyRunsItsTests ==
    (Done /\ EveryCallbackReturns /\ \A t \in TestIds : testTab[t] # it_only) =>
       \A t \in TestIds :
          (/\ UnderOnlySuite(t)
           /\ NoSkipAbove(t)
           /\ ~testTab[t].only /\ ~testTab[t].skip /\ ~testTab[t].todo) =>
             /\ bodyRuns[t] >= 1
             /\ Len(ResultsOf(t)) >= 1

\* C4: when an only modifier was set in the module (here: one whose callbacks
\* all return at once), outside skip-flagged suites a test that is not marked
\* only, neither itself nor through a suite above it, never has a Result and
\* its body never runs, and the runner never enters a suite that is not only
\* and has nothing only below it.
OnlyExcludesTheRest ==
    (AnyOnly /\ EveryCallbackReturns) =>
       /\ \A t \in TestIds :
             (NoSkipAbove(t) /\ ~testTab[t].only /\ ~UnderOnlySuite(t)) =>
                /\ ResultsOf(t) = <<>>
                /\ bodyRuns[t] = 0
       /\ \A s \in SuiteIds :
             (/\ \A k \in DOMAIN PathTo(s) : ~suiteTab[PathTo(s)[k]].skip
              /\ ~suiteTab[s].only /\ ~OnlyBelow(s)) =>
                ~Entered(s)

\* C5: a test with retry = N, not marked fails, whose attempts 1..k fail
\* (here: because the body throws, 1 <= k) and whose attempt k+1 passes,
\* k <= N, has had its body executed exactly k+1 times and has exactly one
\* Result, passed and without error, when the run is over.
RetryPassesAfterFailures ==
    Done =>
       \A t \in TestIds :
          (/\ ~testTab[t].fails
           /\ Len(attemptLog[t]) >= 2
           /\ LastOf(attemptLog[t]) = "pass"
           /\ \A k \in 1..(Len(attemptLog[t]) - 1) : attemptLog[t][k] = "body") =>
             /\ Len(attemptLog[t]) <= testTab[t].retry + 1
             /\ bodyRuns[t] = Len(attemptLog[t])
             /\ ResultsOf(t) = <<MkResult(t, "passed", NoError)>>

\* C6: a test with retry = N (here N >= 1), not marked fails, whose every
\* attempt fails has been attempted exactly N+1 times and has exactly one
\* Result, failed and carrying the error of an attempt, when the run is over.
RetryExhaustsAttempts ==
    Done =>
       \A t \in TestIds :
          (/\ ~testTab[t].fails
           /\ testTab[t].retry >= 1
           /\ attemptLog[t] # <<>>
           /\ \A k \in DOMAIN attemptLog[t] : attemptLog[t][k] # "pass") =>
             /\ Len(attemptLog[t]) = testTab[t].retry + 1
             /\ Len(ResultsOf(t)) = 1
             /\ ResultsOf(t)[1].status = "failed"
             /\ ResultsOf(t)[1].error \in AttemptErrors(t)

\* C7: a test marked fails whose body threw in every attempt has exactly one
\* Result, passed and without error; one whose body did not throw has
\* exactly one Result, failed with the message 'Test was expected to fail
\* but passed'.
FailsModifierInverts ==
    Done =>
       \A t \in TestIds :
          (testTab[t].fails /\ attemptLog[t] # <<>>) =>
             /\ (\A k \in DOMAIN attemptLog[t] : attemptLog[t][k] = "body") =>
                   ResultsOf(t) = <<MkResult(t, "passed", NoError)>>
             /\ attemptLog[t] = <<"pass">> =>
                   ResultsOf(t) = <<MkResult(t, "failed", ExpectedToFailError)>>

\* C8: a test with retry = 0, not marked fails, whose unit of work had not
\* settled when its timeout T elapsed, T being its timeout option, has
\* exactly one Result, failed with a message that mentions 'timed out after
\* Tms', when the run is over.
TimeoutFailsTheTest ==
    Done =>
       \A t \in TestIds :
          (/\ ~testTab[t].fails
           /\ testTab[t].retry = 0
           /\ testTab[t].timeout = CustomTimeout
           /\ attemptLog[t] = <<"timeout">>) =>
             /\ Len(ResultsOf(t)) = 1
             /\ ResultsOf(t)[1].status = "failed"
             /\ MentionsTimedOutAfter(ResultsOf(t)[1].error.message,
                                      testTimeout(t))

\* C10: once a test has concluded, the finish hooks registered with
\* onTestFinished while it executed have each run exactly once, the last
\* registered first, whatever its final status.
FinishHooksRunInReverse ==
    tx.pc = "none" =>
       LET reg == SelectSeq(regLog, LAMBDA e : e.kind = "onTestFinished" /\ e.live)
           ran == SelectSeq(sideLog, LAMBDA e : e.kind = "onTestFinished")
       IN [k \in 1..Len(ran) |-> ran[k].fn]
             = Reverse([k \in 1..Len(reg) |-> reg[k].fn])

-----------------------------------------------------------------------------
\* Vocabulary of the properties about the side-channel hooks.

\* the callbacks of a sequence of log entries
FnsOf(log) == [k \in 1..Len(log) |-> log[k].fn]

\* the calls of onTestFinished / onTestFailed of the given kind made under
\* test id t while a test was executing, in the order they were made
RegisteredFor(kind, t) ==
    SelectSeq(regLog, LAMBDA e : e.kind = kind /\ e.id = t /\ e.live)

\* the hooks of the given kind executed for test id t, in execution order
RanFor(kind, t) ==
    SelectSeq(sideLog, LAMBDA e : e.kind = kind /\ e.id = t)

\* test t has a Result with status failed
RecordedFailed(t) ==
    \E k \in DOMAIN ResultsOf(t) : ResultsOf(t)[k].status = "failed"

\* test t was failed by timeout
FailedByTimeout(t) ==
    \E k \in DOMAIN ResultsOf(t) :
       ResultsOf(t)[k] = MkResult(t, "failed", TimeoutError(testTimeout(t)))

\* the callbacks attached to test id `id` in the registry
AttachedTo(id) ==
    Range(MapGet(testHooksRegistry.onTestFinished, id))
        \cup Range(MapGet(testHooksRegistry.onTestFailed, id))

\* the test ids the registry holds an entry for
RegistryIds ==
    DOMAIN testHooksRegistry.onTestFinished
        \cup DOMAIN testHooksRegistry.onTestFailed

-----------------------------------------------------------------------------
\* C11: when a test has concluded, the failure hooks registered with
\* onTestFailed while it executed have run if and only if its recorded status
\* is failed, the last registered first, and no finish hook of the test ran
\* before one of its failure hooks.
FailureHooksFollowStatus ==
    tx.pc = "none" =>
       \A t \in TestIds :
          (RegisteredFor("onTestFailed", t) # <<>> /\ ResultsOf(t) # <<>>) =>
             /\ FnsOf(RanFor("onTestFailed", t)) =
                   IF RecordedFailed(t)
                   THEN Reverse(FnsOf(RegisteredFor("onTestFailed", t)))
                   ELSE <<>>
             /\ \A i, j \in DOMAIN sideLog :
                   (/\ i < j
                    /\ sideLog[i].id = t /\ sideLog[j].id = t
                    /\ sideLog[i].kind = "onTestFinished") =>
                      sideLog[j].kind = "onTestFinished"

\* C12: a call of onTestFinished or onTestFailed made while no test is
\* executing (before the first test, or after a test has ended, as from an
\* afterAll hook) throws the usage error and registers nothing: it leaves
\* the registry as it was.
UsageErrorOutsideTests ==
    [][(tx.pc = "none" /\ regCount' > regCount) =>
          testHooksRegistry' = testHooksRegistry]_vars

\* C13: once a test was failed by timeout and its execution is over, no
\* callback registered by its body is attached to any test id in the
\* registry, and none was executed on behalf of another test.
LateCallsAreRefused ==
    \A b \in TestIds :
       (FailedByTimeout(b) /\ tx.test # b) =>
          /\ \A id \in RegistryIds : \A fn \in AttachedTo(id) : fn.by # b
          /\ \A k \in DOMAIN sideLog :
                sideLog[k].fn.by = b => sideLog[k].id = b

\* C14: the side-channel hooks executed for a test were all registered in
\* its final attempt: a hook registered by the body in an earlier attempt of
\* a retried test is not among them.
HooksScopedToAttempt ==
    \A k \in DOMAIN sideLog :
       (sideLog[k].fn.by = sideLog[k].id /\ attemptLog[sideLog[k].id] # <<>>) =>
          sideLog[k].fn.attempt = Len(attemptLog[sideLog[k].id])

\* C15: the registry holds no entry for the id of a test that has concluded,
\* for the rest of the run, and whenever no test is executing both hook maps
\* are empty.
RegistryEmptyBetweenTests ==
    /\ \A t \in TestIds :
          (ResultsOf(t) # <<>> /\ tx.test # t) => t \notin RegistryIds
    /\ tx.pc = "none" => RegistryIds = {}

\* C16: whatever a side-channel hook does when it is called (return, throw
\* an Error, throw any other value), the hook registered before it is called
\* next, the finish hooks are called after the last failure hook, and the
\* Result recorded once the hooks are done is the one the test had.
SideHooksAllRun ==
    [][(tx.pc \in {"failedHooks", "finishedHooks"} /\ tx' # tx) =>
          /\ tx.j > 1 => (tx'.pc = tx.pc /\ tx'.j = tx.j - 1)
          /\ (/\ tx.j = 1 /\ tx.pc = "failedHooks"
              /\ Len(MapGet(testHooksRegistry.onTestFinished, tx.test)) > 0) =>
                (tx'.pc = "finishedHooks" /\ tx'.result = tx.result)
          /\ tx'.pc = "none" => results' = Append(results, tx.result)]_vars

-----------------------------------------------------------------------------
\* Vocabulary of the properties about the Result sequence.

\* the tests of a sequence of suites in declaration order: the own tests of
\* a suite, then those of its child suites, then those of the next suite
RECURSIVE PreOrder(_)
PreOrder(suites) ==
    IF suites = <<>> THEN <<>>
    ELSE suiteTab[Head(suites)].tests
            \o PreOrder(suiteTab[Head(suites)].suites)
            \o PreOrder(Tail(suites))

\* suite s is skip-flagged or below a skip-flagged suite
UnderSkip(s) == \E k \in DOMAIN PathTo(s) : suiteTab[PathTo(s)[k]].skip

\* the errors a beforeAll hook can fail with
BeforeAllErrors ==
    HookThrows \cup {TimeoutError(HOOK_TIMEOUT)}
        \cup {UsageError(kind) : kind \in RegKinds}

\* the beforeAll hook of suite s failed with e: the tests of s carry the
\* wrapped error
BeforeAllFailedWith(s, e) ==
    \E t \in Range(suiteTab[s].tests) :
       \E k \in DOMAIN ResultsOf(t) :
          ResultsOf(t)[k] =
             MkResult(t, "failed", SuiteHookFailed(BeforeAllFailed(e)))

\* C17: every test below a suite registered with describe.skip has exactly
\* one Result, skipped, when the run is over; its body never runs, no unit
\* of work is started for it and the runner never enters a suite of that
\* subtree to run its hooks.
SkippedSuiteSkipsSubtree ==
    /\ \A t \in TestIds :
          ~NoSkipAbove(t) =>
             /\ bodyRuns[t] = 0
             /\ \A u \in LiveUnits : u.test # t
             /\ Done => ResultsOf(t) = <<MkResult(t, "skipped", NoError)>>
    /\ \A s \in SuiteIds : UnderSkip(s) => ~Entered(s)

\* C18: in a module with no only modifier, when the beforeAll hook of a
\* suite failed (threw or timed out), every test of that suite and of the
\* suites nested under it has a Result failed with the error wrapping the
\* hook failure when the run is over.
BeforeAllFailureFailsSubtree ==
    (Done /\ ~AnyOnly) =>
       \A s \in SuiteIds : \A e \in BeforeAllErrors :
          BeforeAllFailedWith(s, e) =>
             \A t \in TestIds :
                (\E k \in DOMAIN PathTo(SuiteOf(t)) : PathTo(SuiteOf(t))[k] = s) =>
                   \E k \in DOMAIN ResultsOf(t) :
                      /\ ResultsOf(t)[k].status = "failed"
                      /\ ResultsOf(t)[k].error =
                            SuiteHookFailed(BeforeAllFailed(e))

\* C19: in a module with no only modifier, when the run is over the Result
\* sequence has one Result for each declared test and nothing else.
EveryTestOnce ==
    (Done /\ ~AnyOnly) =>
       /\ Len(results) = Cardinality(TestIds)
       /\ \A t \in TestIds : Len(ResultsOf(t)) = 1

\* C20: when the run is over the Results follow the declaration order of the
\* tree: a Result of a test never comes after a Result of a test declared
\* later in the pre-order traversal (own tests, then child suites).
ResultsInDeclarationOrder ==
    Done =>
       \A i, j \in DOMAIN results :
          (/\ i < j
           /\ results[i].test \in TestIds
           /\ results[j].test \in TestIds) =>
             Position(PreOrder(testContext.suites), results[i].test)
                <= Position(PreOrder(testContext.suites), results[j].test)

-----------------------------------------------------------------------------
\* C21: every element of the Result sequence is a Result whose status is one
\* of passed, failed, skipped, todo, and it carries an error if and only if
\* its status is failed.
ResultsWellFormed ==
    \A k \in DOMAIN results :
       /\ results[k].status \in {"passed", "failed", "skipped", "todo"}
       /\ results[k].error # NoError <=> results[k].status = "failed"

\* C22: when the body of a test throws (an Error or any other value), the
\* step that handles the rejection leaves the Results of the other tests as
\* they are, appends at most one Result, for that test (failed, or passed for
\* a test expected to fail), and leaves the runner inside the suite, so that
\* its nested suites are still run.
BodyFailureIsOneResult ==
    [][(/\ tx.pc = "await" /\ cur.race = "rejected" /\ ~cur.hookThrew
        /\ tx' # tx) =>
          /\ results' # results =>
                \E status \in {"failed", "passed"} :
                   /\ status = "passed" <=> testTab[tx.test].fails
                   /\ results' = Append(results,
                          MkResult(tx.test, status,
                                   IF status = "failed" THEN cur.raceError
                                   ELSE NoError))
          /\ Len(suiteTab[Top(stack).suite].suites) > 0 =>
                \E k \in DOMAIN stack' : stack'[k].suite = Top(stack).suite]_vars

\* C23: every run of a loaded module eventually reaches run-end, even if a
\* test body, a lifecycle hook or a side-channel hook never settles.
RunEnds == <>Done

-----------------------------------------------------------------------------
\* C24: when the run is over and the Result sequence holds a Result with
\* status failed (also one recorded because a beforeAll hook of the suite
\* failed), the exit status of the process is not zero.
FailedResultFailsTheRun ==
    (Done /\ \E k \in DOMAIN results : results[k].status = "failed") =>
       exitStatus(reporter) # 0

\* C25: every Result appended to the Result sequence has been delivered to
\* the reporter once, through onTestEnd, in sequence order: the reporter
\* holds the same sequence and its total is the number of Results.
ReporterSeesEveryResult ==
    /\ reporter.results = results
    /\ reporter.total = Len(results)

-----------------------------------------------------------------------------
\* Loading a module: the registration calls of describe.js, it.js and
\* hooks.js, as the module under test makes them while runSpecFile imports
\* it.  During the load suiteTab and testTab are the sequences of the suite
\* and test objects created so far; an object is named by its index.

\* registration calls (suites, tests, lifecycle hooks) a module makes at most
MaxCalls == 4

\* resetTestContext() has run and await import(fileUrl) has started; cases
\* and name are the case table and the name template the module passes to
\* each / for
ImportStarted(cases, name) ==
    [pc |-> "import", frames |-> <<>>, error |-> NoError,
     cases |-> cases, name |-> name]

\* the usage errors of it.js and hooks.js
TestsUsageError == MkError(<<"Tests must be defined within a describe block">>)
HooksUsageError ==
    MkError(<<"Lifecycle hooks must be defined within a describe block">>)

\* a pending describe call: its local constants suite and parentSuite
Call(suite, parentSuite) == [suite |-> suite, parentSuite |-> parentSuite]

\* the name given to plain registrations
PlainName == <<"name">>

\* a suite or test object with its name; passes is the argument list its
\* callback is called with (by describe, or by the wrapper it.each creates)
Named(node, name, passes) == node @@ [name |-> name, passes |-> passes]

\* the ways a module registers a test: it, it.only, the options form with
\* only, it.skip, it.todo, it.fails
RegForms == {it(NoOptions), it_only, it([NoOptions EXCEPT !.only = TRUE]),
             it_skip, it_todo, it_fails}

HookKinds == {"beforeAll", "beforeEach", "afterAll", "afterEach"}

\* the lifecycle hooks registered so far
RECURSIVE HookCount(_)
HookCount(tab) ==
    IF tab = <<>> THEN 0
    ELSE Len(Head(tab).hooks.beforeAll) + Len(Head(tab).hooks.beforeEach)
         + Len(Head(tab).hooks.afterAll) + Len(Head(tab).hooks.afterEach)
         + HookCount(Tail(tab))

\* the suites, tests and lifecycle hooks registered so far
Registered == Len(suiteTab) + Len(testTab) + HookCount(suiteTab)

\* the state of the runner while the module is imported
RunNotStarted ==
    /\ fnTab = <<>>
    /\ globalTimeout = DEFAULT_TIMEOUT
    /\ testHooksRegistry = [onTestFinished |-> EmptyMap,
                            onTestFailed |-> EmptyMap,
                            currentTestId |-> Null]
    /\ stack = <<Frame(Null, "suites", 1, NoEachHooks)>>
    /\ tx = NoTx
    /\ cur = NoUnit
    /\ zombies = <<>>
    /\ results = <<>>
    /\ reporter = [results |-> <<>>, total |-> 0]
    /\ bodyRuns = <<>>
    /\ attemptLog = <<>>
    /\ regCount = 0
    /\ regLog = <<>>
    /\ sideLog = <<>>

runVars == <<fnTab, globalTimeout, testHooksRegistry, stack, tx, cur, zombies,
             results, reporter, bodyRuns, attemptLog, regCount, regLog,
             sideLog>>

\* resetTestContext()
resetTestContext == [suites |-> <<>>, currentSuite |-> Null, hasOnly |-> FALSE]

\* the suite table after parentSuite.suites.push(suite), or unchanged when
\* there is no parent suite
PushSuite(tab, parentSuite, suite) ==
    Append(IF parentSuite # Null
           THEN [tab EXCEPT ![parentSuite].suites = Append(@, Len(tab) + 1)]
           ELSE tab,
           suite)

\* testContext after describe / describe.only / describe.skip has pushed
\* the new suite and made it the current one
EnterDescribe(ctx, form, id) ==
    [suites |-> IF ctx.currentSuite = Null THEN Append(ctx.suites, id)
                ELSE ctx.suites,
     currentSuite |-> id,
     hasOnly |-> ctx.hasOnly \/ form = describe_only]

\* describe without its last statement
KeepCursor(ctx, call) == ctx

\* testContext.currentSuite = parentSuite, the last statement of describe
RestoreCursor(ctx, call) == [ctx EXCEPT !.currentSuite = call.parentSuite]

\* it and the hook registrations without their check
ActiveSuiteAssumed(ctx) == FALSE

\* if (!context.currentSuite) throw ...
NoActiveSuite(ctx) == ctx.currentSuite = Null

\* the load is ended by a thrown error, which no describe call catches
Aborted(l, error) == [l EXCEPT !.pc = "aborted", !.error = error,
                               !.frames = <<>>]

\* describe(name, fn), describe.only(name, fn), describe.skip(name, fn) up to
\* the call of fn
DescribeCall ==
    /\ load.pc = "import"
    /\ Registered < MaxCalls
    /\ \E form \in SuiteForms :
         LET id == Len(suiteTab) + 1
             parentSuite == testContext.currentSuite
         IN /\ suiteTab' = PushSuite(suiteTab, parentSuite,
                                     Named(form, PlainName, <<>>))
            /\ testContext' = EnterDescribe(testContext, form, id)
            /\ load' = [load EXCEPT !.frames = Append(@, Call(id, parentSuite))]
    /\ UNCHANGED <<testTab, runVars>>

\* fn() returns to the describe call that made it
BuildReturn ==
    /\ load.pc = "import"
    /\ load.frames # <<>>
    /\ testContext' = RestoreCursor(testContext, Top(load.frames))
    /\ load' = [load EXCEPT !.frames = Pop(@)]
    /\ UNCHANGED <<suiteTab, testTab, runVars>>

\* it(name, fn), it(name, options, fn), it.only, it.skip, it.todo, it.fails
ItCall ==
    /\ load.pc = "import"
    /\ Registered < MaxCalls
    /\ \E form \in RegForms :
         /\ testContext' = [testContext EXCEPT
                               !.hasOnly = @ \/ form = it_only]
         /\ IF NoActiveSuite(testContext)
            THEN /\ load' = Aborted(load, TestsUsageError)
                 /\ UNCHANGED <<suiteTab, testTab>>
            ELSE /\ testTab' = Append(testTab, Named(form, PlainName, <<>>))
                 /\ suiteTab' = [suiteTab EXCEPT
                                    ![testContext.currentSuite].tests =
                                        Append(@, Len(testTab) + 1)]
                 /\ load' = load
    /\ UNCHANGED runVars

\* beforeAll(fn), beforeEach(fn), afterAll(fn), afterEach(fn)
HookCall ==
    /\ load.pc = "import"
    /\ Registered < MaxCalls
    /\ \E kind \in HookKinds :
         IF NoActiveSuite(testContext)
         THEN /\ load' = Aborted(load, HooksUsageError)
              /\ suiteTab' = suiteTab
         ELSE LET s == testContext.currentSuite
              IN /\ suiteTab' = [suiteTab EXCEPT ![s].hooks[kind] =
                                   Append(@, Hook(kind, s, Len(@) + 1))]
                 /\ load' = load
    /\ UNCHANGED <<testContext, testTab, runVars>>

\* the evaluation of the module ends: await import(fileUrl) returns
LoadEnd ==
    /\ load.pc = "import"
    /\ load.frames = <<>>
    /\ load' = [load EXCEPT !.pc = "loaded"]
    /\ UNCHANGED <<testContext, suiteTab, testTab, runVars>>

BuildInit ==
    /\ load = ImportStarted(<<>>, <<>>)
    /\ testContext = resetTestContext
    /\ suiteTab = <<>>
    /\ testTab = <<>>
    /\ RunNotStarted

BuildNext ==
    \/ DescribeCall
    \/ BuildReturn
    \/ ItCall
    \/ HookCall
    \/ LoadEnd

BuildSpec == BuildInit /\ [][BuildNext]_vars

-----------------------------------------------------------------------------
\* Vocabulary of the properties about loading.

\* a describe call is pending: a suite is being constructed
UnderConstruction == load.frames # <<>>

\* the suite whose build function is running in load state l (Null: none)
Constructing(l) == IF l.frames = <<>> THEN Null ELSE Top(l.frames).suite

\* how many times suite id appears among the root suites of ctx and the
\* child suites of tab
SuiteAppearances(ctx, tab, id) ==
    Cardinality({k \in DOMAIN ctx.suites : ctx.suites[k] = id})
    + Cardinality({p \in (DOMAIN tab) \X (1..Len(tab)) :
                      /\ p[2] \in DOMAIN tab[p[1]].suites
                      /\ tab[p[1]].suites[p[2]] = id})

\* the suites of tab that hold test t
HoldersOf(tab, t) ==
    {s \in DOMAIN tab : \E k \in DOMAIN tab[s].tests : tab[s].tests[k] = t}

\* some suite or test of the tree built so far is flagged only
BuiltOnly ==
    \/ \E s \in DOMAIN suiteTab : suiteTab[s].only
    \/ \E t \in DOMAIN testTab : testTab[t].only

SuiteRegistrationIsScoped ==
    [][/\ DescribeCall =>
            LET id == Len(suiteTab) + 1
                outer == Constructing(load)
            IN /\ Len(suiteTab') = id
               /\ SuiteAppearances(testContext', suiteTab', id) = 1
               /\ IF outer = Null
                  THEN testContext'.suites = Append(testContext.suites, id)
                  ELSE suiteTab'[outer].suites =
                          Append(suiteTab[outer].suites, id)
       /\ BuildReturn =>
            /\ testContext'.currentSuite = Constructing(load')
            /\ suiteTab' = suiteTab
       /\ (ItCall /\ UnderConstruction) =>
            /\ Len(testTab') = Len(testTab) + 1
            /\ HoldersOf(suiteTab', Len(testTab')) = {Constructing(load)}
            /\ \A s \in DOMAIN suiteTab :
                  s # Constructing(load) => suiteTab'[s] = suiteTab[s]
       /\ (HookCall /\ UnderConstruction) =>
            /\ HookCount(suiteTab') = HookCount(suiteTab) + 1
            /\ \A s \in DOMAIN suiteTab :
                  s # Constructing(load) => suiteTab'[s] = suiteTab[s]]_vars

\* suite 2 was registered inside suite 1 with a test of its own, and after
\* its build function returned a test was registered in suite 1
SuiteRegistrationIsScopedWitness ==
    /\ load.pc = "loaded"
    /\ testContext.currentSuite = Null
    /\ testContext.suites = <<1>>
    /\ suiteTab[1].suites = <<2>>
    /\ suiteTab[2].tests = <<1>>
    /\ suiteTab[1].tests = <<2>>

\* C28: once the module is loaded, hasOnly is true if and only if a suite or
\* a test of the tree is flagged only, whichever entry point flagged it.
OnlyFlagTracksTree ==
    load.pc = "loaded" => (testContext.hasOnly <=> BuiltOnly)

-----------------------------------------------------------------------------
\* it.each, it.for, describe.each, describe.for.  A name is a sequence of
\* text fragments; a placeholder or a $key token of a template is a fragment
\* of its own.

\* JavaScript values passed as cases
Num(n) == [kind |-> "number", n |-> n]
Str(s) == [kind |-> "string", s |-> s]
Arr(items) == [kind |-> "array", items |-> items]
Obj(fields) == [kind |-> "object", fields |-> fields]
\* what shift() returns on an empty array
UndefinedValue == [kind |-> "undefined"]

\* Array.isArray(testCase)
IsArray(v) == v.kind = "array"

\* String(value)
RECURSIVE StringOf(_)
StringOf(v) ==
    CASE v.kind = "number" -> NumberText(v.n)
      [] v.kind = "string" -> <<v.s>>
      [] v.kind = "undefined" -> <<"undefined">>
      [] v.kind = "object" -> <<"[object Object]">>
      [] v.kind = "array" ->
           IF v.items = <<>> THEN <<>>
           ELSE IF Len(v.items) = 1 THEN StringOf(v.items[1])
           ELSE StringOf(v.items[1]) \o <<",">> \o StringOf(Arr(Tail(v.items)))

\* the fragments the regular expression /%[sdio%]/g matches
Placeholders == {"%s", "%d", "%i", "%o", "%%"}

\* name.replace(/%[sdio%]/g, (match) => ...) of it.each and describe.each:
\* for an array case every match takes the next element off the queue
\* (testCaseCopy.shift() or testCase.shift()), for any other case it is
\* String(testCase); text is the new name and rest what is left of the queue
RECURSIVE ReplaceShifting(_, _, _)
ReplaceShifting(name, testCase, queue) ==
    IF name = <<>> THEN [text |-> <<>>, rest |-> queue]
    ELSE IF Head(name) \in Placeholders
    THEN IF IsArray(testCase)
         THEN LET value == IF queue = <<>> THEN UndefinedValue ELSE Head(queue)
                  after == IF queue = <<>> THEN <<>> ELSE Tail(queue)
                  r == ReplaceShifting(Tail(name), testCase, after)
              IN [text |-> StringOf(value) \o r.text, rest |-> r.rest]
         ELSE LET r == ReplaceShifting(Tail(name), testCase, queue)
              IN [text |-> StringOf(testCase) \o r.text, rest |-> r.rest]
    ELSE LET r == ReplaceShifting(Tail(name), testCase, queue)
         IN [text |-> <<Head(name)>> \o r.text, rest |-> r.rest]

\* name.replace(/%[sdio%]/g, () => String(testCase)) of it.for and
\* describe.for
RECURSIVE ReplaceWhole(_, _)
ReplaceWhole(name, testCase) ==
    IF name = <<>> THEN <<>>
    ELSE (IF Head(name) \in Placeholders THEN StringOf(testCase)
          ELSE <<Head(name)>>) \o ReplaceWhole(Tail(name), testCase)

\* testName || `${name} [${index}]`, index counted from 0
OrIndexed(testName, name, index) ==
    IF testName = <<>> THEN name \o <<" [">> \o NumberText(index) \o <<"]">>
    ELSE testName

\* the queue the placeholders of a case are taken from
ItemsOf(testCase) == IF IsArray(testCase) THEN testCase.items ELSE <<>>

\* it.each(cases)(name, fn) for an array of cases: the name of each test and
\* the arguments its wrapper passes to fn, which are read from testCase when
\* the test runs; the placeholders consume a copy of the case
it_each(cases, name) ==
    [k \in DOMAIN cases |->
       [name |-> OrIndexed(ReplaceShifting(name, cases[k],
                                           ItemsOf(cases[k])).text,
                           name, k - 1),
        passes |-> IF IsArray(cases[k]) THEN cases[k].items ELSE <<cases[k]>>]]

\* describe.each(cases)(name, fn): the placeholders consume the case itself,
\* and fn is called at once with what is left of it
describe_each(cases, name) ==
    [k \in DOMAIN cases |->
       LET r == ReplaceShifting(name, cases[k], ItemsOf(cases[k]))
       IN [name |-> OrIndexed(r.text, name, k - 1),
           passes |-> IF IsArray(cases[k]) THEN r.rest ELSE <<cases[k]>>]]

\* the case table after describe.each: the array cases have lost the
\* elements the placeholders took
ShiftedCases(cases, name) ==
    [k \in DOMAIN cases |->
       IF IsArray(cases[k])
       THEN Arr(ReplaceShifting(name, cases[k], cases[k].items).rest)
       ELSE cases[k]]

\* it.for(cases)(name, fn) and describe.for(cases)(name, fn)
each_for(cases, name) ==
    [k \in DOMAIN cases |->
       [name |-> OrIndexed(ReplaceWhole(name, cases[k]), name, k - 1),
        passes |-> <<cases[k]>>]]

\* the tests registered by successive it(testName, wrapper) calls
TestsOf(regs) ==
    [k \in DOMAIN regs |-> Named(it(NoOptions), regs[k].name, regs[k].passes)]

\* the suites registered by successive describe(suiteName, wrapper) calls
SuitesOf(regs) ==
    [k \in DOMAIN regs |-> Named(describe, regs[k].name, regs[k].passes)]

\* the suite table after the suites `suites` were pushed to parentSuite
RECURSIVE PushSuites(_, _, _)
PushSuites(tab, parentSuite, suites) ==
    IF suites = <<>> THEN tab
    ELSE PushSuites(PushSuite(tab, parentSuite, Head(suites)), parentSuite,
                    Tail(suites))

\* it.each(cases)(name, fn) or it.for(cases)(name, fn) registering regs: the
\* first it call throws when no suite is current
RegisterTests(regs) ==
    IF regs # <<>> /\ NoActiveSuite(testContext)
    THEN /\ load' = Aborted(load, TestsUsageError)
         /\ UNCHANGED <<suiteTab, testTab>>
    ELSE /\ testTab' = testTab \o TestsOf(regs)
         /\ suiteTab' =
               IF regs = <<>> THEN suiteTab
               ELSE [suiteTab EXCEPT ![testContext.currentSuite].tests =
                        @ \o [k \in DOMAIN regs |-> Len(testTab) + k]]
         /\ load' = load

\* it.each(cases)(name, fn)
ItEach ==
    /\ load.pc = "import"
    /\ Registered < MaxCalls
    /\ RegisterTests(it_each(load.cases, load.name))
    /\ UNCHANGED <<testContext, runVars>>

\* it.for(cases)(name, fn)
ItFor ==
    /\ load.pc = "import"
    /\ Registered < MaxCalls
    /\ RegisterTests(each_for(load.cases, load.name))
    /\ UNCHANGED <<testContext, runVars>>

\* the root sequence after describe calls made with the cursor of ctx
RootsAfter(ctx, first, n) ==
    IF ctx.currentSuite = Null
    THEN ctx.suites \o [k \in 1..n |-> first + k]
    ELSE ctx.suites

\* describe.each(cases)(name, fn) with a build function that registers
\* nothing: every describe call pushes its suite, calls fn and restores the
\* cursor
DescribeEach ==
    /\ load.pc = "import"
    /\ Registered < MaxCalls
    /\ suiteTab' = PushSuites(suiteTab, testContext.currentSuite,
                              SuitesOf(describe_each(load.cases, load.name)))
    /\ testContext' = [testContext EXCEPT
                          !.suites = RootsAfter(testContext, Len(suiteTab),
                                                Len(load.cases))]
    /\ load' = [load EXCEPT !.cases = ShiftedCases(load.cases, load.name)]
    /\ UNCHANGED <<testTab, runVars>>

\* describe.for(cases)(name, fn) with a build function that registers nothing
DescribeFor ==
    /\ load.pc = "import"
    /\ Registered < MaxCalls
    /\ suiteTab' = PushSuites(suiteTab, testContext.currentSuite,
                              SuitesOf(each_for(load.cases, load.name)))
    /\ testContext' = [testContext EXCEPT
                          !.suites = RootsAfter(testContext, Len(suiteTab),
                                                Len(load.cases))]
    /\ UNCHANGED <<load, testTab, runVars>>

\* the case tables and name templates the modules under study pass
CaseTables ==
    { <<Arr(<<Num(1), Num(2), Num(3)>>), Arr(<<Num(2), Num(3), Num(5)>>)>>,
      <<Arr(<<Str("a"), Num(12)>>)>>,
      <<Obj([input |-> Str("hello")]), Obj([input |-> Str("world")])>>,
      <<Num(7), Str("b")>>,
      <<>> }
Templates ==
    { <<"%i", "+", "%i", "=", "%i">>,
      <<"%s", " is ", "%d">>,
      <<"should calculate length of ", "$input">>,
      <<"plain">> }

\* the module is imported with its case table and its name template
EachInit ==
    /\ \E cases \in CaseTables, name \in Templates :
          load = ImportStarted(cases, name)
    /\ testContext = resetTestContext
    /\ suiteTab = <<>>
    /\ testTab = <<>>
    /\ RunNotStarted

EachNext ==
    \/ DescribeCall
    \/ BuildReturn
    \/ ItEach
    \/ ItFor
    \/ DescribeEach
    \/ DescribeFor
    \/ LoadEnd

EachSpec == EachInit /\ [][EachNext]_vars

-----------------------------------------------------------------------------
\* Vocabulary of the properties about each / for.

RECURSIVE Flatten(_)
Flatten(seqs) == IF seqs = <<>> THEN <<>> ELSE Head(seqs) \o Flatten(Tail(seqs))

\* the placeholders that stand for an element of an array case
ElementPlaceholders == {"%s", "%d", "%i"}

\* how many element placeholders name has up to its fragment i
Rank(name, i) ==
    Cardinality({j \in 1..i : name[j] \in ElementPlaceholders})

\* every placeholder of name is an element placeholder and the array has an
\* element for each of them
Fits(name, items) ==
    /\ \A i \in DOMAIN name :
          name[i] \in Placeholders => name[i] \in ElementPlaceholders
    /\ Rank(name, Len(name)) <= Len(items)

\* name with its k-th element placeholder replaced by the k-th element
NameForArray(name, items) ==
    Flatten([i \in DOMAIN name |->
               IF name[i] \in ElementPlaceholders
               THEN StringOf(items[Rank(name, i)])
               ELSE <<name[i]>>])

\* the $key tokens of the templates and the key each one names
DollarKeys == ("$input" :> "input")

\* name with each $key token replaced by the value of that key
NameForObject(name, fields) ==
    Flatten([i \in DOMAIN name |->
               IF name[i] \in DOMAIN DollarKeys
               THEN StringOf(fields[DollarKeys[name[i]]])
               ELSE <<name[i]>>])

\* the tests (suites) added by the step, in the order they were added
NewTests == [k \in 1..(Len(testTab') - Len(testTab)) |->
               testTab'[Len(testTab) + k]]
NewSuites == [k \in 1..(Len(suiteTab') - Len(suiteTab)) |->
                suiteTab'[Len(suiteTab) + k]]

\* C29: it.each and describe.each applied to an array of n cases register n
\* tests (suites), one per case in case order; for an array case the name is
\* the template with its k-th %s/%d/%i placeholder replaced by the k-th
\* element, and the body is called with all the elements of the case.
EachExpandsArrayCases ==
    [][/\ (ItEach /\ UnderConstruction) =>
            /\ Len(NewTests) = Len(load.cases)
            /\ \A k \in DOMAIN load.cases :
                  (/\ IsArray(load.cases[k])
                   /\ Fits(load.name, load.cases[k].items)) =>
                     /\ NewTests[k].name =
                           NameForArray(load.name, load.cases[k].items)
                     /\ NewTests[k].passes = load.cases[k].items
       /\ DescribeEach =>
            /\ Len(NewSuites) = Len(load.cases)
            /\ \A k \in DOMAIN load.cases :
                  (/\ IsArray(load.cases[k])
                   /\ Fits(load.name, load.cases[k].items)) =>
                     /\ NewSuites[k].name =
                           NameForArray(load.name, load.cases[k].items)
                     /\ NewSuites[k].passes = load.cases[k].items]_vars

\* C30: for an object case, each / for give the test (suite) the template
\* with every $key token replaced by the value of that key, pass the whole
\* case object as the single argument of the body, and leave the case
\* object as it was.
EachExpandsObjectCases ==
    [][\A k \in DOMAIN load.cases :
          load.cases[k].kind = "object" =>
             /\ ((ItEach \/ ItFor) /\ UnderConstruction) =>
                   /\ NewTests[k].name =
                         NameForObject(load.name, load.cases[k].fields)
                   /\ NewTests[k].passes = <<load.cases[k]>>
             /\ (DescribeEach \/ DescribeFor) =>
                   /\ NewSuites[k].name =
                         NameForObject(load.name, load.cases[k].fields)
                   /\ NewSuites[k].passes = <<load.cases[k]>>
             /\ (ItEach \/ ItFor \/ DescribeEach \/ DescribeFor) =>
                   load'.cases[k] = load.cases[k]]_vars

\* C40: a registration call that fails with a usage error because no suite
\* is active leaves the construction state as it was: the root suite
\* sequence, the current-suite cursor and the hasOnly flag are unchanged (a
\* failed it.only does not turn hasOnly on).
FailedRegistrationChangesNothing ==
    [][((ItCall \/ HookCall) /\ load'.pc = "aborted") =>
          /\ testContext'.suites = testContext.suites
          /\ testContext'.currentSuite = testContext.currentSuite
          /\ testContext'.hasOnly = testContext.hasOnly]_vars

-----------------------------------------------------------------------------
\* Suites that register two beforeAll hooks and two afterAll hooks.

TwiceHooks(s) ==
    [RegisteredHooks(s) EXCEPT !.beforeAll = Append(@, Hook("beforeAll", s, 2)),
                               !.afterAll = Append(@, Hook("afterAll", s, 2))]

TwiceCalls ==
    Calls \cup ({Hook(kind, s, 2) : kind \in {"beforeAll", "afterAll"},
                                    s \in SuiteIds} \X {Null})

\* the modules with tests 1 and 2 in the root suite and test 3 in the suite
\* nested in it, registered in the form f2: test 1 passes, test 2 throws, test
\* 3 may outlast its timeout and registers side-channel hooks; the beforeAll
\* hooks behave as ba and the afterAll hooks as aa, the each-hooks return
SuiteHooksInit ==
    \E f2 \in SuiteForms, ba \in {QuickHook, AnyHook},
       aa \in {QuickHook, AnyHook, NullThrowingHook} :
       /\ load = ModuleLoaded
       /\ suiteTab = [s \in SuiteIds |->
                         IF s = 1
                         THEN [describe EXCEPT !.tests = <<1, 2>>,
                                               !.suites = <<2>>,
                                               !.hooks = TwiceHooks(1)]
                         ELSE [f2 EXCEPT !.tests = <<3>>,
                                         !.hooks = TwiceHooks(2)]]
       /\ testTab = [t \in TestIds |-> it(NoOptions)]
       /\ fnTab = [c \in TwiceCalls |->
                     IF IsBody(c[1])
                     THEN (CASE c[1][2] = 1 -> PassingBody
                             [] c[1][2] = 2 -> FailingBody
                             [] OTHER -> LateBody)
                     ELSE IF c[1][1] = "beforeAll" THEN ba
                     ELSE IF c[1][1] = "afterAll" THEN aa
                     ELSE QuickHook]
       /\ testContext = [suites |-> <<1>>, currentSuite |-> Null,
                         hasOnly |-> f2.only]
       /\ globalTimeout = DEFAULT_TIMEOUT
       /\ testHooksRegistry = [onTestFinished |-> EmptyMap,
                               onTestFailed |-> EmptyMap,
                               currentTestId |-> Null]
       /\ stack = <<Frame(Null, "suites", 1, NoEachHooks)>>
       /\ tx = NoTx
       /\ cur = NoUnit
       /\ zombies = <<>>
       /\ results = <<>>
       /\ reporter = [results |-> <<>>, total |-> 0]
       /\ bodyRuns = [t \in TestIds |-> 0]
       /\ attemptLog = [t \in TestIds |-> <<>>]
       /\ regCount = 0
       /\ regLog = <<>>
       /\ sideLog = <<>>

SuiteHooksSpec == SuiteHooksInit /\ [][Next]_vars

\* the runner awaits afterAll hook i of suite s
AwaitsAfterAll(st, s, i) ==
    /\ st # <<>>
    /\ Top(st).suite = s
    /\ Top(st).pc = "afterAll"
    /\ Top(st).i = i

\* the tests of suite s selected to run have a Result
TestsConcluded(s) ==
    \A t \in Range(suiteTab[s].tests) : shouldRunTest(t) => ResultsOf(t) # <<>>

\* C32: the afterAll hooks of a suite are called after the tests of the suite
\* have their Results and the nested suites were walked, last registered
\* first; whatever a hook does (return, throw, time out), the hook registered
\* before it is called next and the Result sequence is left as it was.
AfterAllIsHarmless ==
    [][AfterAllHook =>
          LET f == Top(stack)
          IN /\ TestsConcluded(f.suite)
             /\ \A k \in DOMAIN stack : stack[k].suite # f.suite \/ k = Len(stack)
             /\ results' = results
             /\ f.i > 1 => AwaitsAfterAll(stack', f.suite, f.i - 1)]_vars

\* the tests declared in suite s or in a suite below it
TestsBelow(s) ==
    {t \in TestIds : \E k \in DOMAIN PathTo(SuiteOf(t)) : PathTo(SuiteOf(t))[k] = s}

\* the suites below suite s, s included
SuitesBelow(s) ==
    {q \in SuiteIds : \E k \in DOMAIN PathTo(q) : PathTo(q)[k] = s}

\* a call of runSuite for suite s is pending
Walking(s) == \E k \in DOMAIN stack : stack[k].suite = s

\* C39: once a beforeAll hook of a suite has failed (thrown or timed out),
\* the runner is in no call of runSuite for that suite or for a suite nested
\* in it, so it calls no further beforeAll hook of the suite and walks no
\* nested suite; no body of a test of the suite or below has run, and no
\* unit of work (beforeEach hooks, body, afterEach hooks) was started for one.
BeforeAllFailureStopsSuite ==
    \A s \in SuiteIds, e \in BeforeAllErrors :
       BeforeAllFailedWith(s, e) =>
          /\ \A q \in SuitesBelow(s) : ~Walking(q)
          /\ \A t \in TestsBelow(s) :
                /\ bodyRuns[t] = 0
                /\ attemptLog[t] = <<>>
                /\ tx.test # t
                /\ \A u \in RacedUnits : u.test # t

\* a beforeAll hook of the root suite failed: the run is over with no body
\* run, the two tests of the root suite marked failed and the test of the
\* nested suite without Result
BeforeAllFailureStopsSuiteWitness ==
    /\ Done
    /\ \E e \in BeforeAllErrors : BeforeAllFailedWith(1, e)
    /\ \A t \in TestIds : bodyRuns[t] = 0
    /\ Len(results) = 2
    /\ ResultsOf(3) = <<>>

\* the Result the runner holds for test t once its last attempt is over:
\* the one awaiting its side-channel hooks, or the last one recorded
HeldResult(t) ==
    IF tx.test = t /\ tx.pc \in {"failedHooks", "finishedHooks"}
    THEN tx.result
    ELSE ResultsOf(t)[Len(ResultsOf(t))]

\* C34: when an attempt fails with an Error and its deadline has not fired (a
\* body error or a hook error, whatever its message), the runner calls the
\* inherited afterEach hooks once more, innermost first, and an error they
\* throw leaves the outcome of the attempt as it was; when the deadline
\* fired, the runner calls no afterEach hook for the attempt.
CleanupFollowsFailure ==
    [][/\ AttemptSettled =>
            LET ae == Top(stack).hooks.afterEach
            IN /\ (cur.race = "rejected" /\ HasMessage(cur.raceError)
                      /\ ae # <<>>) =>
                     /\ tx'.pc = "cleanup"
                     /\ tx'.j = Len(ae)
                     /\ tx'.lastError = cur.raceError
               /\ cur.race = "timedout" => tx'.pc # "cleanup"
       /\ CleanupStep =>
            IF tx'.pc = "cleanup"
            THEN tx'.j = tx.j - 1 /\ tx'.lastError = tx.lastError
            ELSE \A t \in {tx.test} :
                    (tx'.pc # "await" /\ ~testTab[t].fails) =>
                       HeldResult(t)' = MkResult(t, "failed", tx.lastError)]_vars

\* the unit of work u was rejected by a throw of the hook of the given kind
\* it was running
HookRejected(u, kind) ==
    /\ u.race = "rejected"
    /\ u.hookThrew
    /\ u.steps[u.p][1] = kind

\* the calls the unit of work u itself made (the calls of the catch block
\* of the attempt follow them in the call log)
OwnCalls(u) == SubSeq(u.callLog, 1, u.p)

\* the step of the runner ends the last attempt of the test in progress
EndsTheTest ==
    /\ AttemptSettled \/ CleanupStep
    /\ tx'.pc \notin {"await", "cleanup"}

\* the error of a beforeEach hook that threw
BeforeEachErrors == {BeforeEachFailed(e) : e \in HookThrows}

AfterEachErrors == {AfterEachFailed(e) : e \in HookThrows}

\* hook h belongs to a suite outside the suite of hook g, or was registered
\* before g in the same suite
OuterThan(h, g) ==
    \/ Len(PathTo(h[2])) < Len(PathTo(g[2]))
    \/ h[2] = g[2] /\ h[3] < g[3]

\* the steps the unit of work u had not reached when it settled
NotReached(u) == {u.steps[k] : k \in (u.p + 1)..Len(u.steps)}

SetupHeld(t) ==
    \A k \in DOMAIN PathTo(SuiteOf(t)), e \in BeforeAllErrors :
       ~BeforeAllFailedWith(PathTo(SuiteOf(t))[k], e)

\* C37: in a module without only modifier, a test flagged skip or todo whose
\* suite runs (no suite above it is skipped, no beforeAll hook above it
\* failed) has exactly one Result when the run is over, skipped or todo
\* (skipped when both flags are set) and without error; its body was never
\* called and no unit of work (beforeEach hooks, body, afterEach hooks) was
\* started for it, whatever its fails, retry and timeout settings.
SkipAndTodoYieldOneResult ==
    \A t \in TestIds :
       ((testTab[t].skip \/ testTab[t].todo) /\ NoSkipAbove(t)
           /\ ~hasOnlyModifier) =>
          /\ bodyRuns[t] = 0
          /\ attemptLog[t] = <<>>
          /\ \A u \in RacedUnits : u.test # t
          /\ (Done /\ SetupHeld(t)) =>
                ResultsOf(t) =
                   <<MkResult(t, IF testTab[t].skip THEN "skipped" ELSE "todo",
                              NoError)>>

\* the runner awaits a beforeAll or afterAll hook
AwaitsSuiteHook ==
    /\ tx.pc = "none"
    /\ stack # <<>>
    /\ Top(stack).pc \in {"beforeAll", "afterAll"}

\* unit of work u is still executing and has not finished its body
BodyUnsettled(u) ==
    /\ u.alive
    /\ \E k \in u.p..Len(u.steps) : IsBody(u.steps[k])

\* C38 as stated: while the body of an attempt has not settled, the runner
\* is in no other attempt (of the same or another test) and awaits no suite
\* hook.
OneUnitAtATime ==
    \A k \in DOMAIN zombies :
       BodyUnsettled(zombies[k]) => tx.pc # "await" /\ ~AwaitsSuiteHook

\* C38, amended: the runner awaits at most one unit of work, and goes on to
\* the catch block, the side-channel hooks, the next attempt, the next test
\* or a suite hook only once the race of that unit has settled; the units
\* it no longer awaits while they execute are those abandoned at their
\* deadline, whose race stays rejected with their own timeout error.
OneAwaitedUnit ==
    /\ tx.pc = "cleanup" => cur.race = "rejected"
    /\ tx.pc \in {"none", "failedHooks", "finishedHooks"} => cur = NoUnit
    /\ tx.pc = "await" => cur.test = tx.test /\ cur.attempt = tx.attempts
    /\ \A k \in DOMAIN zombies :
          /\ zombies[k].race = "timedout"
          /\ zombies[k].timer = "fired"
          /\ zombies[k].raceError = TimeoutError(zombies[k].timeout)

\* the first attempt of the test of the nested suite was abandoned at its
\* deadline with its body still running, and the second attempt is in
\* progress
OneAwaitedUnitWitness ==
    /\ tx.pc = "await"
    /\ tx.test = 3
    /\ cur.attempt = 2
    /\ cur.race = "pending"
    /\ \E k \in DOMAIN zombies :
          /\ zombies[k].test = 3
          /\ zombies[k].attempt = 1
          /\ BodyUnsettled(zombies[k])

-----------------------------------------------------------------------------
\* TestRunner.run: the spec files are loaded and run one after the other.
\* Suite and test objects stay in suiteTab and testTab when the next file is
\* loaded; the load record also keeps, as history, the number of the file,
\* the sizes of the tables when its load began, the suites whose build
\* function called setTestTimeout (Null: a call outside any suite) and the
\* construction state the previous file left.

\* spec files given to one run
MaxFiles == 2
\* registration calls (suites, tests, lifecycle hooks) the files of one run
\* make in all
MaxFileCalls == 3

\* new Error('Timeout must be a positive number')
TimeoutUsageError == MkError(<<"Timeout must be a positive number">>)

\* the arguments the modules pass to setTestTimeout: a valid timeout and 0
TimeoutArgs == {CustomTimeout, 0}

\* resetTestTimeout() without its assignment
keepTestTimeout(timeout) == timeout

\* resetTestTimeout(): the global timeout afterwards
resetTestTimeout(timeout) == DEFAULT_TIMEOUT

\* the load record when the import of file number file starts
FileStarted(file, left) ==
    ImportStarted(<<>>, <<>>)
       @@ [file |-> file, suites0 |-> Len(suiteTab), tests0 |-> Len(testTab),
           callers |-> {}, left |-> left]

\* the lifecycle hooks of the suites of tab
HooksOf(tab) ==
    UNION {Range(tab[s].hooks[kind]) : s \in DOMAIN tab, kind \in HookKinds}

\* the body of the first test registered in the run may return, throw an
\* Error, outlast its timeout and register side-channel hooks; the other
\* bodies and the lifecycle hooks return at once
FileBody == Callback(TRUE, {MkError(<<"boom">>)}, TRUE, TRUE)

FileCallbacks ==
    [c \in (HooksOf(suiteTab) \cup {Body(t) : t \in DOMAIN testTab})
              \X (DOMAIN testTab \cup {Null}) |->
        IF c[1] = Body(1) THEN FileBody ELSE QuickHook]

\* setTestTimeout(timeout), called while the module is evaluated (a file
\* makes one call that sets the timeout at most)
SetTestTimeoutCall ==
    /\ load.pc = "import"
    /\ \E timeout \in TimeoutArgs :
         /\ timeout > 0 => load.callers = {}
         /\ IF timeout <= 0
            THEN /\ load' = Aborted(load, TimeoutUsageError)
                 /\ globalTimeout' = globalTimeout
            ELSE /\ load' = [load EXCEPT
                                !.callers = @ \cup {Constructing(load)}]
                 /\ globalTimeout' = timeout
    /\ UNCHANGED <<testContext, suiteTab, testTab, fnTab, testHooksRegistry,
                   stack, tx, cur, zombies, results, reporter, bodyRuns,
                   attemptLog, regCount, regLog, sideLog>>

\* runSpecFile after await import(fileUrl): const results = [], and the loop
\* over context.suites begins
StartRun ==
    /\ load.pc = "loaded"
    /\ load' = [load EXCEPT !.pc = "run"]
    /\ stack' = Norm(<<Frame(Null, "suites", 1, NoEachHooks)>>)
    /\ fnTab' = FileCallbacks
    /\ bodyRuns' = [t \in DOMAIN testTab |->
                      IF t \in DOMAIN bodyRuns THEN bodyRuns[t] ELSE 0]
    /\ attemptLog' = [t \in DOMAIN testTab |->
                        IF t \in DOMAIN attemptLog THEN attemptLog[t] ELSE <<>>]
    /\ UNCHANGED <<testContext, suiteTab, testTab, globalTimeout,
                   testHooksRegistry, tx, cur, zombies, results, reporter,
                   regCount, regLog, sideLog>>

\* runSpecFile has returned, with the Results of the file or from its catch
\* block
FileOver ==
    \/ load.pc = "aborted"
    \/ load.pc = "run" /\ stack = <<>> /\ tx = NoTx

\* run: the next runSpecFile call, up to await import(fileUrl)
NextFile ==
    /\ FileOver
    /\ load.file < MaxFiles
    /\ testContext' = resetTestContext
    /\ globalTimeout' = resetTestTimeout(globalTimeout)
    /\ load' = FileStarted(load.file + 1,
                           [pc |-> load.pc, context |-> testContext,
                            timeout |-> globalTimeout])
    /\ results' = <<>>
    /\ UNCHANGED <<suiteTab, testTab, fnTab, testHooksRegistry, stack, tx, cur,
                   zombies, reporter, bodyRuns, attemptLog, regCount, regLog,
                   sideLog>>

FileInit ==
    /\ suiteTab = <<>>
    /\ testTab = <<>>
    /\ load = FileStarted(1, [pc |-> "none", context |-> resetTestContext,
                              timeout |-> DEFAULT_TIMEOUT])
    /\ testContext = resetTestContext
    /\ globalTimeout = DEFAULT_TIMEOUT
    /\ fnTab = <<>>
    /\ testHooksRegistry = [onTestFinished |-> EmptyMap,
                            onTestFailed |-> EmptyMap,
                            currentTestId |-> Null]
    /\ stack = <<>>
    /\ tx = NoTx
    /\ cur = NoUnit
    /\ zombies = <<>>
    /\ results = <<>>
    /\ reporter = [results |-> <<>>, total |-> 0]
    /\ bodyRuns = <<>>
    /\ attemptLog = <<>>
    /\ regCount = 0
    /\ regLog = <<>>
    /\ sideLog = <<>>

\* a further registration call may be made
FileBudget == Registered < MaxFileCalls

FileNext ==
    \/ DescribeCall /\ FileBudget
    \/ BuildReturn
    \/ ItCall /\ FileBudget
    \/ HookCall /\ FileBudget
    \/ SetTestTimeoutCall
    \/ LoadEnd
    \/ StartRun
    \/ Next
    \/ NextFile

FileSpec == FileInit /\ [][FileNext]_vars

\* suites a and b of the module being run are siblings: two root suites, or
\* two distinct children of one suite
SiblingSuites(a, b) ==
    /\ a # b
    /\ \/ {a, b} \subseteq Range(testContext.suites)
       \/ \E p \in DOMAIN suiteTab : {a, b} \subseteq Range(suiteTab[p].suites)

\* C31: a setTestTimeout call made inside the body of suite A leaves the
\* effective timeout of the tests of a sibling suite B alone: a test of B
\* that was registered without a timeout option runs against the default
\* timeout.
TimeoutStaysInSuite ==
    \A a \in load.callers \ {Null}, b \in DOMAIN suiteTab :
        (/\ SiblingSuites(a, b)
         /\ tx.pc = "await"
         /\ cur.test \in Range(suiteTab[b].tests)
         /\ testTab[cur.test].timeout = 0)
            => cur.timeout = DEFAULT_TIMEOUT

\* the suites and the tests that the module being run has registered
OwnSuites == {s \in DOMAIN suiteTab : s > load.suites0}
OwnTests == {t \in DOMAIN testTab : t > load.tests0}

\* nothing is registered yet and no timeout was set by the module being run
NothingEvaluated ==
    /\ load.pc = "import"
    /\ OwnSuites = {}
    /\ OwnTests = {}
    /\ load.callers = {}

\* C33: the construction state is reset before each module is loaded, so a
\* module starts from no root suite, a null cursor, hasOnly false and the
\* default timeout, and whatever the construction state holds later comes
\* from the module itself: root suites and cursor are its own, no Result
\* belongs to a test of an earlier module, the only-selection of a module
\* that runs rests on an only flag of its own, and
\* a test without a timeout option in a module that set no timeout runs
\* against the default.
ModulesStartFresh ==
    /\ NothingEvaluated =>
          /\ testContext = resetTestContext
          /\ globalTimeout = DEFAULT_TIMEOUT
    /\ Range(testContext.suites) \subseteq OwnSuites
    /\ testContext.currentSuite \in OwnSuites \cup {Null}
    /\ (testContext.hasOnly /\ load.pc # "aborted") =>
          \/ \E s \in OwnSuites : suiteTab[s].only
          \/ \E t \in OwnTests : testTab[t].only
    /\ globalTimeout # DEFAULT_TIMEOUT => load.callers # {}
    /\ \A k \in DOMAIN results : results[k].test \notin DOMAIN testTab \ OwnTests
    /\ (tx.pc = "await" /\ load.callers = {} /\ testTab[cur.test].timeout = 0)
          => cur.timeout = DEFAULT_TIMEOUT

\* the first module set the timeout, selected a suite with only and aborted
\* inside a describe body; the second module was loaded and a test of it
\* without a timeout option has its Result
ModulesStartFreshWitness ==
    /\ load.file = 2
    /\ load.left.pc = "aborted"
    /\ load.left.context.currentSuite # Null
    /\ load.left.context.hasOnly
    /\ load.left.timeout = CustomTimeout
    /\ \E k \in DOMAIN results :
          /\ results[k].status = "passed"
          /\ testTab[results[k].test].timeout = 0

====
